---------------------------- MODULE Spec2Model ----------------------------
(***************************************************************************)
(* Benchmark orchestration engine of nosql-newsql-compare: the connection  *)
(* registry, the nine backend adapters, runTest, the buffered, streamed     *)
(* and repeated matrix runners, the single-test endpoint and the dashboard *)
(* consumer of the event stream.                                            *)
(*                                                                         *)
(* The backends, the network and the clock are the environment.  Every    *)
(* awaited request of a connect call is answered "ok", "exists" (the       *)
(* object to create already exists) or "other" (any other failure).  One   *)
(* call of an adapter sees the environment through a record env:          *)
(*   throwAt : "none" | "discover" | "bulk" | "verify"   the awaited        *)
(*             request of the adapter that rejects                         *)
(*   verify  : "ok" | "missing" | "mismatch"   what the verification reads *)
(*   elapsed : Date.now() - startTime of the adapter                       *)
(*   partial : rows a write stored before one of its inserts rejected      *)
(* Handlers run to completion between two awaits, as tasks do on the one   *)
(* JavaScript thread; res.write of a string does not throw.                *)
(***************************************************************************)
EXTENDS Integers, Sequences, FiniteSets, TLC

(***************************************************************************)
(* Program constants                                                       *)
(***************************************************************************)
RECORD_COUNT == 10000
batchSize == 100
SubsetLimit == 1000
repeatCount == 10

databases == <<"cassandra", "mongo", "cockroach">>
operations == <<"write", "read", "update">>
validOperations == {"read", "write", "update"}

DatabaseType == {databases[i] : i \in 1..Len(databases)}
OperationType == {operations[i] : i \in 1..Len(operations)}

dbLabels == [cassandra |-> "Cassandra", mongo |-> "MongoDB", cockroach |-> "CockroachDB"]

(***************************************************************************)
(* Bounds of the model                                                     *)
(***************************************************************************)
\* deviations of the environment from its nominal behaviour in a matrix run
MaxFaults == 1
\* the same, in a repeated run
MaxRepeatFaults == 0
\* the same, over the calls made to the registry
MaxRegistryFaults == 1
\* calls made to the registry's interface (connect, closeAllConnections)
MaxCalls == 2
\* chunk boundaries falling inside an event's frame, frames a chunk may touch
MaxSplits == 1
MaxChunkFrames == 2

NoError == "<absent>"
NoRecordsMessage == "No records found in database. Please run Write test first."
RequestFailed == "request failed"
ConnectFailed == "connection failed"
NullishThrown == "Cannot read properties of undefined (reading 'message')"

Min(a, b) == IF a <= b THEN a ELSE b

(***************************************************************************)
(* TestResult (types.ts)                                                   *)
(***************************************************************************)
TestResult(db, op, t, n, integrity, err) ==
  [database |-> db, operation |-> op, timeTaken |-> t, recordCount |-> n,
   dataIntegrity |-> integrity, error |-> err]

NullResult == TestResult("", "", 0, 0, FALSE, NoError)

(***************************************************************************)
(* Environment records                                                     *)
(***************************************************************************)
EnvNominal ==
  [throwAt |-> "none", verify |-> "ok", elapsed |-> 1, partial |-> 0]

Deviations ==
     {[EnvNominal EXCEPT !.throwAt = t] : t \in {"discover", "verify"}}
  \cup {[EnvNominal EXCEPT !.throwAt = "bulk", !.partial = p] : p \in {0, batchSize}}
  \cup {[EnvNominal EXCEPT !.verify = v] : v \in {"missing", "mismatch"}}
  \cup {[EnvNominal EXCEPT !.elapsed = 0]}

\* a backend that is down rejects the first request sent to it
EnvDown == [EnvNominal EXCEPT !.throwAt = "discover"]

(***************************************************************************)
(* Adapters (runTest.ts).  handle: the registry getter returned non-null;  *)
(* n: records.length; k: recordIds.length; stored: rows the backend holds. *)
(***************************************************************************)
AdapterWriteTest(label, handle, n, env) ==
  IF ~handle \/ env.throwAt \in {"discover", "bulk", "verify"}
  THEN TestResult(label, "write", env.elapsed, n, FALSE,
                  IF ~handle THEN label \o " client not initialized" ELSE RequestFailed)
  ELSE TestResult(label, "write", env.elapsed, n, env.verify = "ok", NoError)

runCassandraWriteTest(handle, n, env) == AdapterWriteTest("Cassandra", handle, n, env)
runMongoWriteTest(handle, n, env) == AdapterWriteTest("MongoDB", handle, n, env)
runCockroachWriteTest(handle, n, env) == AdapterWriteTest("CockroachDB", handle, n, env)

\* rows the discovery query returns, and the identifiers selected from them
Discovered(stored, limit) == Min(stored, limit)
Selected(stored, limit, k) == Min(Discovered(stored, limit), Min(k, SubsetLimit))

\* an adapter whose catch block leaves dataIntegrity at its initial true
AdapterSubsetTestOptimistic(label, op, handle, k, limit, stored, env) ==
  IF ~handle
  THEN TestResult(label, op, env.elapsed, k, TRUE, label \o " client not initialized")
  ELSE IF env.throwAt = "discover"
  THEN TestResult(label, op, env.elapsed, k, TRUE, RequestFailed)
  ELSE IF Discovered(stored, limit) = 0
  THEN TestResult(label, op, env.elapsed, 0, FALSE, NoRecordsMessage)
  ELSE IF env.throwAt \in {"bulk", "verify"}
  THEN TestResult(label, op, env.elapsed, k, TRUE, RequestFailed)
  ELSE TestResult(label, op, env.elapsed, Selected(stored, limit, k),
                  env.verify = "ok", NoError)

AdapterSubsetTest(label, op, handle, k, limit, stored, env) ==
  IF ~handle
  THEN TestResult(label, op, env.elapsed, k, FALSE, label \o " client not initialized")
  ELSE IF env.throwAt = "discover"
  THEN TestResult(label, op, env.elapsed, k, FALSE, RequestFailed)
  ELSE IF Discovered(stored, limit) = 0
  THEN TestResult(label, op, env.elapsed, 0, FALSE, NoRecordsMessage)
  ELSE IF env.throwAt \in {"bulk", "verify"}
  THEN TestResult(label, op, env.elapsed, k, FALSE, RequestFailed)
  ELSE TestResult(label, op, env.elapsed, Selected(stored, limit, k),
                  env.verify = "ok", NoError)

runCassandraReadTest(handle, k, stored, env) ==
  AdapterSubsetTest("Cassandra", "read", handle, k, Min(k, SubsetLimit), stored, env)
runCassandraUpdateTest(handle, k, stored, env) ==
  AdapterSubsetTest("Cassandra", "update", handle, k, Min(k, SubsetLimit), stored, env)
runMongoReadTest(handle, k, stored, env) ==
  AdapterSubsetTest("MongoDB", "read", handle, k, k, stored, env)
runMongoUpdateTest(handle, k, stored, env) ==
  AdapterSubsetTest("MongoDB", "update", handle, k, k, stored, env)
runCockroachReadTest(handle, k, stored, env) ==
  AdapterSubsetTest("CockroachDB", "read", handle, k, k, stored, env)
runCockroachUpdateTest(handle, k, stored, env) ==
  AdapterSubsetTest("CockroachDB", "update", handle, k, k, stored, env)

\* rows the backend holds after the adapter's write
RowsAfterWrite(handle, stored, n, env) ==
  IF ~handle \/ env.throwAt = "discover" THEN stored
  ELSE IF env.throwAt = "bulk" THEN stored + env.partial
  ELSE stored + n


(***************************************************************************)
(* State                                                                   *)
(***************************************************************************)
VARIABLES
  registry,    \* the module-level handles of dbConnectors.ts (Null or an object id)
  clients,     \* every client or Db object constructed so far, by object id
  rows,        \* rows stored in test_data, per backend
  down,        \* backends that reject every request
  faultsLeft,  \* deviations the environment may still choose
  conn,        \* per caller: the connect call it is executing
  closer,      \* the closeAllConnections call in progress
  h,           \* per request slot: the handler's locals and position
  out,         \* per request slot: the HTTP response
  cons,        \* the dashboard's stream consumer
  ad,          \* the adapter call executed step by step
  ghost        \* history: first handle returned per backend, overlap of registry calls

vars == <<registry, clients, rows, down, faultsLeft, conn, closer, h, out, cons, ad, ghost>>

Slots == {1, 2}
Null == 0

IdleHandler ==
  [kind |-> "none", pc |-> "none", method |-> "", operation |-> "", cell |-> 0,
   i |-> 0, currentTest |-> 0, progress |-> 0, allResults |-> <<>>, times |-> <<>>,
   awaited |-> [thrown |-> FALSE, value |-> NullResult], invoked |-> <<>>]

IdleOut == [status |-> 0, json |-> [kind |-> "none"], events |-> <<>>, ended |-> FALSE]

\* running: runningAllTests or runningRepeatTests, which disables the controls
IdleCons == [pc |-> "none", pos |-> 0, applied |-> <<>>, splits |-> 0, running |-> FALSE]

\* count: records.length or recordIds.length; i: records whose insert was
\* dispatched; inflight: requests awaiting their answer; carried: records in the
\* insert requests in flight; discovered: rows the discovery query returned;
\* ids: identifiers selected; source: where they were taken from; sent: requests
\* sent so far, by kind; seen: what the answers showed; applied: selected rows
\* that carry the values of their UPDATE; prev: the result of the caller's
\* previous call of the same adapter; records: the argument of a write
IdleAd ==
  [pc |-> "idle", db |-> "", op |-> "", count |-> 0, handle |-> FALSE, i |-> 0,
   inflight |-> 0, carried |-> 0, discovered |-> 0, ids |-> 0, source |-> "none",
   applied |-> 0,
   sent |-> [discover |-> 0, record |-> 0, verify |-> 0],
   seen |-> [rejected |-> "none", group |-> "none", verify |-> "none"],
   result |-> NullResult, prev |-> NullResult, records |-> <<>>]

(***************************************************************************)
(* Connection registry (dbConnectors.ts)                                   *)
(***************************************************************************)
\* objects are numbered per backend, in the order of their construction
NewId(b) == Len(clients[b]) + 1
\* closes: the times the client's shutdown, close or end has succeeded
Add(table, b, role) ==
  [table EXCEPT ![b] = Append(@, [role |-> role, state |-> "new", closes |-> 0])]

getCassandraClient == registry.cassandraClient
getMongoDB == registry.mongoDb
getCockroachDBClient == registry.cockroachClient

getHandle(b) ==
  CASE b = "cassandra" -> getCassandraClient
    [] b = "mongo" -> getMongoDB
    [] OTHER -> getCockroachDBClient

IdleConn ==
  [pc |-> "idle", db |-> "", temp |-> Null, main |-> Null, ret |-> Null,
   hit |-> FALSE, sawExists |-> FALSE, sawOther |-> FALSE, after |-> Null]

\* what the backend may answer to a request; canExist: the request creates an
\* object without IF NOT EXISTS, so the backend may answer "already exists"
Answers(b, canExist) ==
  IF b \in down THEN {"other"}
  ELSE {"ok"} \cup (IF canExist THEN {"exists"} ELSE {})
              \cup (IF faultsLeft > 0 THEN {"other"} ELSE {})

Charge(b, a) ==
  faultsLeft' = IF a = "other" /\ b \notin down THEN faultsLeft - 1 ELSE faultsLeft

SetState(b, id, state) ==
  [clients EXCEPT ![b][id].state = state,
                  ![b][id].closes = IF state = "closed" THEN @ + 1 ELSE @]
\* a request that was answered at all has opened the client's connection
Touched(b, id) == IF b \in down THEN clients ELSE SetState(b, id, "open")

\* the caller's connect call moves on; the first handle a connect call returns
\* for a backend is remembered
Upd(c, rec) ==
  /\ conn' = [conn EXCEPT ![c] = rec]
  /\ ghost' = IF rec.pc = "returned" /\ ghost.first[rec.db] = Null
              THEN [ghost EXCEPT !.first[rec.db] = rec.ret] ELSE ghost

Goto(c, pc) == Upd(c, [conn[c] EXCEPT !.pc = pc])
Return(c, handle) == Upd(c, [conn[c] EXCEPT !.pc = "returned", !.ret = handle])
Throw(c) == Upd(c, [conn[c] EXCEPT !.pc = "threw", !.sawOther = TRUE])

RegFrame == UNCHANGED <<rows, down, closer, h, out, cons, ad>>

\* positions at which a handler is suspended in an await, or not running
YieldPcs == {"none", "await_runTest", "delay", "iter_delay", "cell_delay", "done"}
\* no other handler is in the middle of a synchronous stretch of code
Quiet(r) == \A q \in Slots \ {r} : h[q].pc \in YieldPcs

\* a connectCassandra that does not look at the cached client
CassandraBeginUncached(c) ==
  /\ Quiet(c)
  /\ conn[c].pc = "begin" /\ conn[c].db = "cassandra"
  /\ clients' = Add(clients, "cassandra", "temp")
  /\ Upd(c, [conn[c] EXCEPT !.pc = "cass_keyspace", !.temp = NewId("cassandra")])
  /\ UNCHANGED <<registry, faultsLeft>>
  /\ RegFrame

\* connectCassandra, up to the first await
CassandraBegin(c) ==
  /\ Quiet(c)
  /\ conn[c].pc = "begin" /\ conn[c].db = "cassandra"
  /\ IF registry.cassandraClient # Null
     THEN /\ Upd(c, [conn[c] EXCEPT !.pc = "returned", !.hit = TRUE,
                                  !.ret = registry.cassandraClient])
          /\ UNCHANGED clients
     ELSE /\ clients' = Add(clients, "cassandra", "temp")
          /\ Upd(c, [conn[c] EXCEPT !.pc = "cass_keyspace", !.temp = NewId("cassandra")])
  /\ UNCHANGED <<registry, faultsLeft>>
  /\ RegFrame

\* CREATE KEYSPACE IF NOT EXISTS answered; tempClient.shutdown() is sent
CassandraKeyspace(c) ==
  /\ Quiet(c)
  /\ conn[c].pc = "cass_keyspace"
  /\ \E a \in Answers("cassandra", FALSE) :
       /\ Charge("cassandra", a)
       /\ clients' = Touched("cassandra", conn[c].temp)
       /\ IF a = "ok" THEN Goto(c, "cass_shutdown") ELSE Throw(c)
  /\ UNCHANGED registry
  /\ RegFrame

\* shutdown answered; the keyspace client is constructed and stored, CREATE TABLE sent
CassandraShutdown(c) ==
  /\ Quiet(c)
  /\ conn[c].pc = "cass_shutdown"
  /\ \E a \in Answers("cassandra", FALSE) :
       /\ Charge("cassandra", a)
       /\ IF a = "ok"
          THEN /\ clients' = Add(SetState("cassandra", conn[c].temp, "closed"), "cassandra", "main")
               /\ registry' = [registry EXCEPT !.cassandraClient = NewId("cassandra")]
               /\ Upd(c, [conn[c] EXCEPT !.pc = "cass_table", !.main = NewId("cassandra")])
          ELSE /\ Throw(c)
               /\ UNCHANGED <<clients, registry>>
  /\ RegFrame

\* CREATE TABLE IF NOT EXISTS answered; the handle returned is the module variable
CassandraTable(c) ==
  /\ Quiet(c)
  /\ conn[c].pc = "cass_table"
  /\ \E a \in Answers("cassandra", FALSE) :
       /\ Charge("cassandra", a)
       /\ clients' = Touched("cassandra", conn[c].main)
       /\ IF a = "ok" THEN Return(c, registry.cassandraClient) ELSE Throw(c)
  /\ UNCHANGED registry
  /\ RegFrame

\* connectMongoDB, up to the first await
MongoBegin(c) ==
  /\ Quiet(c)
  /\ conn[c].pc = "begin" /\ conn[c].db = "mongo"
  /\ IF registry.mongoDb # Null
     THEN /\ Upd(c, [conn[c] EXCEPT !.pc = "returned", !.hit = TRUE,
                                  !.ret = registry.mongoDb])
          /\ UNCHANGED <<clients, registry>>
     ELSE IF registry.mongoClient = Null
     THEN /\ clients' = Add(clients, "mongo", "main")
          /\ registry' = [registry EXCEPT !.mongoClient = NewId("mongo")]
          /\ Upd(c, [conn[c] EXCEPT !.pc = "mongo_connect", !.main = NewId("mongo")])
     ELSE /\ clients' = Add(clients, "mongo", "db")
          /\ registry' = [registry EXCEPT !.mongoDb = NewId("mongo")]
          /\ Upd(c, [conn[c] EXCEPT !.pc = "mongo_index", !.main = NewId("mongo")])
  /\ UNCHANGED faultsLeft
  /\ RegFrame

\* mongoClient.connect() answered; mongoClient.db() is stored, createIndex is sent.
\* mongoClient is the module variable: null by now if closeAllConnections ran.
MongoConnect(c) ==
  /\ Quiet(c)
  /\ conn[c].pc = "mongo_connect"
  /\ \E a \in Answers("mongo", FALSE) :
       /\ Charge("mongo", a)
       /\ IF a = "ok" /\ registry.mongoClient # Null
          THEN /\ clients' = Add(SetState("mongo", conn[c].main, "open"), "mongo", "db")
               /\ registry' = [registry EXCEPT !.mongoDb = NewId("mongo")]
               /\ Upd(c, [conn[c] EXCEPT !.pc = "mongo_index", !.main = NewId("mongo")])
          ELSE /\ clients' = IF a = "ok" THEN SetState("mongo", conn[c].main, "open") ELSE clients
               /\ Throw(c)
               /\ UNCHANGED registry
  /\ RegFrame

\* createIndex answered: every failure is caught, at most a warning is logged
MongoIndex(c) ==
  /\ Quiet(c)
  /\ conn[c].pc = "mongo_index"
  /\ \E a \in Answers("mongo", TRUE) :
       /\ Charge("mongo", a)
       /\ Upd(c, [conn[c] EXCEPT !.pc = "returned", !.ret = registry.mongoDb,
                               !.sawExists = @ \/ a = "exists",
                               !.sawOther = @ \/ a = "other"])
  /\ UNCHANGED <<registry, clients>>
  /\ RegFrame

\* connectCockroachDB, up to the first await
CockroachBegin(c) ==
  /\ Quiet(c)
  /\ conn[c].pc = "begin" /\ conn[c].db = "cockroach"
  /\ IF registry.cockroachClient # Null
     THEN /\ Upd(c, [conn[c] EXCEPT !.pc = "returned", !.hit = TRUE,
                                  !.ret = registry.cockroachClient])
          /\ UNCHANGED clients
     ELSE /\ clients' = Add(clients, "cockroach", "temp")
          /\ Upd(c, [conn[c] EXCEPT !.pc = "crdb_tempconnect", !.temp = NewId("cockroach")])
  /\ UNCHANGED <<registry, faultsLeft>>
  /\ RegFrame

\* tempClient.connect() answered; CREATE DATABASE is sent
CockroachTempConnect(c) ==
  /\ Quiet(c)
  /\ conn[c].pc = "crdb_tempconnect"
  /\ \E a \in Answers("cockroach", FALSE) :
       /\ Charge("cockroach", a)
       /\ IF a = "ok"
          THEN /\ clients' = SetState("cockroach", conn[c].temp, "open")
               /\ Goto(c, "crdb_database")
          ELSE /\ Throw(c)
               /\ UNCHANGED clients
  /\ UNCHANGED registry
  /\ RegFrame

\* CREATE DATABASE answered: "already exists" is ignored, anything else rethrown
CockroachDatabase(c) ==
  /\ Quiet(c)
  /\ conn[c].pc = "crdb_database"
  /\ \E a \in Answers("cockroach", TRUE) :
       /\ Charge("cockroach", a)
       /\ IF a = "other"
          THEN Throw(c)
          ELSE Upd(c, [conn[c] EXCEPT !.pc = "crdb_tempend",
                                    !.sawExists = @ \/ a = "exists"])
  /\ UNCHANGED <<registry, clients>>
  /\ RegFrame

\* tempClient.end() answered; the client of the target database is constructed,
\* stored, and its connect() is sent
CockroachTempEnd(c) ==
  /\ Quiet(c)
  /\ conn[c].pc = "crdb_tempend"
  /\ \E a \in Answers("cockroach", FALSE) :
       /\ Charge("cockroach", a)
       /\ IF a = "ok"
          THEN /\ clients' = Add(SetState("cockroach", conn[c].temp, "closed"), "cockroach", "main")
               /\ registry' = [registry EXCEPT !.cockroachClient = NewId("cockroach")]
               /\ Upd(c, [conn[c] EXCEPT !.pc = "crdb_connect", !.main = NewId("cockroach")])
          ELSE /\ Throw(c)
               /\ UNCHANGED <<clients, registry>>
  /\ RegFrame

\* cockroachClient.connect() answered; CREATE TABLE IF NOT EXISTS is sent
CockroachConnect(c) ==
  /\ Quiet(c)
  /\ conn[c].pc = "crdb_connect"
  /\ \E a \in Answers("cockroach", FALSE) :
       /\ Charge("cockroach", a)
       /\ IF a = "ok" /\ registry.cockroachClient # Null
          THEN /\ clients' = SetState("cockroach", conn[c].main, "open")
               /\ Goto(c, "crdb_table")
          ELSE /\ clients' = IF a = "ok" THEN SetState("cockroach", conn[c].main, "open") ELSE clients
               /\ Throw(c)
  /\ UNCHANGED registry
  /\ RegFrame

\* CREATE TABLE answered; the handle returned is the module variable
CockroachTable(c) ==
  /\ Quiet(c)
  /\ conn[c].pc = "crdb_table"
  /\ \E a \in Answers("cockroach", FALSE) :
       /\ Charge("cockroach", a)
       /\ IF a = "ok" THEN Return(c, registry.cockroachClient) ELSE Throw(c)
  /\ UNCHANGED <<registry, clients>>
  /\ RegFrame

Connect(c) ==
  \/ CassandraBegin(c) \/ CassandraKeyspace(c) \/ CassandraShutdown(c) \/ CassandraTable(c)
  \/ MongoBegin(c) \/ MongoConnect(c) \/ MongoIndex(c)
  \/ CockroachBegin(c) \/ CockroachTempConnect(c) \/ CockroachDatabase(c)
  \/ CockroachTempEnd(c) \/ CockroachConnect(c) \/ CockroachTable(c)


\* a registry call begins; history: does it overlap another registry call?
InProgress(c) == conn[c].pc \notin {"idle", "returned", "threw"}
Closing == closer.pc \notin {"idle", "done", "threw"}

BeginConnect(c, b) ==
  /\ conn' = [conn EXCEPT ![c] = [IdleConn EXCEPT !.pc = "begin", !.db = b,
                                                 !.after = ghost.first[b]]]
  /\ ghost' = [ghost EXCEPT !.calls = @ + 1, !.concurrent =
                 @ \/ Closing \/ \E q \in Slots \ {c} : InProgress(q) /\ conn[q].db = b]

(***************************************************************************)
(* closeAllConnections                                                     *)
(***************************************************************************)
\* the handle the next "if (handle)" of closeAllConnections finds set, from
\* the given stage on
CloseStage(reg, from) ==
  IF from <= 1 /\ reg.cassandraClient # Null THEN "close_cass"
  ELSE IF from <= 2 /\ reg.mongoClient # Null THEN "close_mongo"
  ELSE IF from <= 3 /\ reg.cockroachClient # Null THEN "close_crdb"
  ELSE "done"

CloseTarget(reg, pc) ==
  CASE pc = "close_cass" -> reg.cassandraClient
    [] pc = "close_mongo" -> reg.mongoClient
    [] pc = "close_crdb" -> reg.cockroachClient
    [] OTHER -> Null

CloseFrame == UNCHANGED <<rows, down, conn, h, out, cons, ad>>

\* closeAllConnections is called: runs up to its first await
CloseAllBegin ==
  /\ closer.pc \in {"idle", "done", "threw"}
  /\ ghost.calls < MaxCalls
  /\ closer' = [pc |-> CloseStage(registry, 1),
                target |-> CloseTarget(registry, CloseStage(registry, 1))]
  /\ ghost' = [first |-> [b \in DatabaseType |-> Null], calls |-> ghost.calls + 1,
               concurrent |-> ghost.concurrent \/ \E q \in Slots : InProgress(q)]
  /\ UNCHANGED <<registry, clients, faultsLeft>>
  /\ CloseFrame

\* await cassandraClient.shutdown() answered; cassandraClient = null
CloseCassandra ==
  /\ closer.pc = "close_cass"
  /\ \E a \in Answers("cassandra", FALSE) :
       /\ Charge("cassandra", a)
       /\ IF a = "ok"
          THEN /\ clients' = SetState("cassandra", closer.target, "closed")
               /\ registry' = [registry EXCEPT !.cassandraClient = Null]
               /\ closer' = [pc |-> CloseStage(registry', 2),
                             target |-> CloseTarget(registry', CloseStage(registry', 2))]
          ELSE /\ closer' = [closer EXCEPT !.pc = "threw"]
               /\ UNCHANGED <<clients, registry>>
  /\ UNCHANGED ghost
  /\ CloseFrame

\* a close of the document store that forgets to reset mongoDb
CloseMongoKeepingDb ==
  /\ closer.pc = "close_mongo"
  /\ \E a \in Answers("mongo", FALSE) :
       /\ Charge("mongo", a)
       /\ IF a = "ok"
          THEN /\ clients' = SetState("mongo", closer.target, "closed")
               /\ registry' = [registry EXCEPT !.mongoClient = Null]
               /\ closer' = [pc |-> CloseStage(registry', 3),
                             target |-> CloseTarget(registry', CloseStage(registry', 3))]
          ELSE /\ closer' = [closer EXCEPT !.pc = "threw"]
               /\ UNCHANGED <<clients, registry>>
  /\ UNCHANGED ghost
  /\ CloseFrame

\* await mongoClient.close() answered; mongoClient = null; mongoDb = null
CloseMongo ==
  /\ closer.pc = "close_mongo"
  /\ \E a \in Answers("mongo", FALSE) :
       /\ Charge("mongo", a)
       /\ IF a = "ok"
          THEN /\ clients' = SetState("mongo", closer.target, "closed")
               /\ registry' = [registry EXCEPT !.mongoClient = Null, !.mongoDb = Null]
               /\ closer' = [pc |-> CloseStage(registry', 3),
                             target |-> CloseTarget(registry', CloseStage(registry', 3))]
          ELSE /\ closer' = [closer EXCEPT !.pc = "threw"]
               /\ UNCHANGED <<clients, registry>>
  /\ UNCHANGED ghost
  /\ CloseFrame

\* await cockroachClient.end() answered; cockroachClient = null
CloseCockroach ==
  /\ closer.pc = "close_crdb"
  /\ \E a \in Answers("cockroach", FALSE) :
       /\ Charge("cockroach", a)
       /\ IF a = "ok"
          THEN /\ clients' = SetState("cockroach", closer.target, "closed")
               /\ registry' = [registry EXCEPT !.cockroachClient = Null]
               /\ closer' = [pc |-> "done", target |-> Null]
          ELSE /\ closer' = [closer EXCEPT !.pc = "threw"]
               /\ UNCHANGED <<clients, registry>>
  /\ UNCHANGED ghost
  /\ CloseFrame

\* a caller of the registry's interface calls connect for a backend
ApiConnect(c) ==
  /\ conn[c].pc \in {"idle", "returned", "threw"}
  /\ h[c].pc = "none"
  /\ ghost.calls < MaxCalls
  /\ \E b \in DatabaseType : BeginConnect(c, b)
  /\ UNCHANGED <<registry, clients, faultsLeft>>
  /\ RegFrame


(***************************************************************************)
(* runTest (runTest.ts)                                                    *)
(***************************************************************************)
\* a generator whose age runs with user_id instead of the loop index
generateTestDataByUserId(count) ==
  [j \in 1..count |->
     LET i == j - 1
     IN [id |-> j, user_id |-> i + 1, age |-> 20 + ((i + 1) % 50)]]

\* the record pushed in loop iteration i = j - 1.  uuidv4() is taken to return
\* an identifier that no earlier call has returned: the identifiers of one
\* call of the generator are numbered in the order they are drawn.
generateTestData(count) ==
  [j \in 1..count |->
     LET i == j - 1
     IN [id |-> j, user_id |-> i + 1, age |-> 20 + (i % 50)]]

\* const testRecords = generateTestData(RECORD_COUNT)
testRecords == generateTestData(RECORD_COUNT)
\* recordIds.slice(0, 1000), of which the adapters use the length
SubsetIds(n) == Min(n, SubsetLimit)

runAdapter(dbType, operation, handle, stored, env) ==
  CASE dbType = "cassandra" /\ operation = "write" ->
         runCassandraWriteTest(handle, Len(testRecords), env)
    [] dbType = "cassandra" /\ operation = "read" ->
         runCassandraReadTest(handle, SubsetIds(Len(testRecords)), stored, env)
    [] dbType = "cassandra" /\ operation = "update" ->
         runCassandraUpdateTest(handle, SubsetIds(Len(testRecords)), stored, env)
    [] dbType = "mongo" /\ operation = "write" ->
         runMongoWriteTest(handle, Len(testRecords), env)
    [] dbType = "mongo" /\ operation = "read" ->
         runMongoReadTest(handle, SubsetIds(Len(testRecords)), stored, env)
    [] dbType = "mongo" /\ operation = "update" ->
         runMongoUpdateTest(handle, SubsetIds(Len(testRecords)), stored, env)
    [] dbType = "cockroach" /\ operation = "write" ->
         runCockroachWriteTest(handle, Len(testRecords), env)
    [] dbType = "cockroach" /\ operation = "read" ->
         runCockroachReadTest(handle, SubsetIds(Len(testRecords)), stored, env)
    [] dbType = "cockroach" /\ operation = "update" ->
         runCockroachUpdateTest(handle, SubsetIds(Len(testRecords)), stored, env)
    [] OTHER ->
         TestResult(dbType, operation, 0, 0, FALSE, "Unsupported database type: " \o dbType)

\* a runTest whose switch falls through to a default result
runTestDefaulting(dbType, operation, connected, handle, stored, env) ==
  IF ~connected THEN TestResult(dbType, operation, 0, 0, FALSE, ConnectFailed)
  ELSE IF dbType \in DatabaseType /\ operation \in OperationType
  THEN runAdapter(dbType, operation, handle, stored, env)
  ELSE TestResult(dbType, operation, 0, 0, TRUE, NoError)

\* the value runTest resolves with; connected: its connect call returned
runTest(dbType, operation, connected, handle, stored, env) ==
  IF connected
  THEN runAdapter(dbType, operation, handle, stored, env)
  ELSE TestResult(dbType, operation, 0, 0, FALSE, ConnectFailed)

AdapterEnvs(db) ==
  IF db \in down THEN {EnvDown}
  ELSE {EnvNominal} \cup (IF faultsLeft > 0 THEN Deviations ELSE {})

Last(seq) == seq[Len(seq)]
\* data.type === 'complete' or data.type === 'error'
IsFinal(e) == "type" \in DOMAIN e /\ e.type \in {"complete", "error"}

\* runTest, from the return of its connect call to its own settling.  When the
\* connect call threw null or undefined, the catch block of runTest throws in turn.
RunTestSettle(r) ==
  /\ Quiet(r)
  /\ h[r].pc = "await_runTest"
  /\ conn[r].pc \in {"returned", "threw"} \/ Last(h[r].invoked)[1] \notin DatabaseType
  /\ LET db == Last(h[r].invoked)[1]
         op == Last(h[r].invoked)[2]
     IN IF db \notin DatabaseType \/ (op \notin OperationType /\ conn[r].pc = "returned")
        THEN /\ h' = [h EXCEPT ![r].pc = "settled",
                        ![r].awaited = [thrown |-> FALSE,
                                        value |-> runTest(db, op, TRUE, FALSE, 0, EnvNominal)]]
             /\ UNCHANGED <<rows, faultsLeft>>
        ELSE IF conn[r].pc = "threw"
        THEN /\ \E nullish \in BOOLEAN :
                  h' = [h EXCEPT ![r].pc = "settled",
                          ![r].awaited =
                            IF nullish
                            THEN [thrown |-> TRUE,
                                  value |-> [NullResult EXCEPT !.error = NullishThrown]]
                            ELSE [thrown |-> FALSE,
                                  value |-> runTest(db, op, FALSE, FALSE, rows[db], EnvNominal)]]
             /\ UNCHANGED <<rows, faultsLeft>>
        ELSE \E env \in AdapterEnvs(db) :
               /\ h' = [h EXCEPT ![r].pc = "settled",
                          ![r].awaited =
                            [thrown |-> FALSE,
                             value |-> runTest(db, op, TRUE, getHandle(db) # Null, rows[db], env)]]
               /\ rows' = IF op = "write"
                          THEN [rows EXCEPT ![db] = RowsAfterWrite(getHandle(db) # Null, @,
                                                                  RECORD_COUNT, env)]
                          ELSE rows
               /\ faultsLeft' = IF env # EnvNominal /\ db \notin down
                                THEN faultsLeft - 1 ELSE faultsLeft
  /\ conn' = [conn EXCEPT ![r] = IdleConn]
  /\ UNCHANGED <<registry, clients, down, closer, out, cons, ad, ghost>>

(***************************************************************************)
(* Request handlers (pages/api/test)                                       *)
(***************************************************************************)
Methods == {"POST", "GET"}
totalCells == Len(databases) * Len(operations)
\* the n-th cell of "for db of databases, for operation of operations"
CellDb(n) == databases[((n - 1) \div Len(operations)) + 1]
\* the operations taken in the reverse order
CellOpReversed(n) == operations[Len(operations) - ((n - 1) % Len(operations))]
CellOp(n) == operations[((n - 1) % Len(operations)) + 1]

\* Math.round(a / b) for a >= 0, b > 0
Round(a, b) == (2 * a + b) \div (2 * b)

HFrame ==
  UNCHANGED <<registry, clients, rows, down, faultsLeft, conn, closer, cons, ad, ghost>>
CallFrame == UNCHANGED <<registry, clients, rows, down, faultsLeft, closer, cons, ad>>

Emit(r, e) == out' = [out EXCEPT ![r].events = Append(@, e)]

\* res.status(code).json(body)
Respond(r, code, body) == out' = [out EXCEPT ![r].status = code, ![r].json = body]

\* a handler that answers a request of another method with 200
MethodAccepted(r, kind) ==
  /\ h' = [h EXCEPT ![r].kind = kind, ![r].pc = "done", ![r].method = "GET"]
  /\ Respond(r, 200, [kind |-> "error", error |-> "Method not allowed"])
  /\ HFrame

\* if (req.method !== 'POST') return res.status(405).json(...)
MethodNotAllowed(r, kind) ==
  /\ h' = [h EXCEPT ![r].kind = kind, ![r].pc = "done", ![r].method = "GET"]
  /\ Respond(r, 405, [kind |-> "error", error |-> "Method not allowed"])
  /\ HFrame

\* runTest(db, op) is called and awaited
Invoke(r, db, op, locals) ==
  /\ h' = [h EXCEPT ![r] = [locals EXCEPT !.pc = "await_runTest",
                                          !.invoked = Append(@, <<db, op>>)]]
  /\ IF db \in DatabaseType THEN BeginConnect(r, db) ELSE UNCHANGED <<conn, ghost>>
  /\ CallFrame

\* runTest called by a caller other than the request handlers, with any strings
RunTestCall(r, dbType, operation) ==
  /\ h[r].pc = "none" /\ conn[r].pc = "idle" /\ ad.pc = "idle"
  /\ Invoke(r, dbType, operation, [IdleHandler EXCEPT !.kind = "direct"])
  /\ UNCHANGED out

\* the TestResult the runners build in their own catch block
ErrorResult(db, op, message) == TestResult(db, op, 0, 0, FALSE, message)

----------------------------------------------------------------------------
\* all-stream.ts: the streamed full-matrix run
StatusEvent(db, op, status, progress) ==
  [currentDatabase |-> dbLabels[db], currentOperation |-> op, status |-> status,
   progress |-> progress]

StreamStart(r) ==
  /\ Quiet(r)
  /\ h[r].pc = "none"
  /\ \E m \in Methods :
       IF m # "POST" THEN MethodNotAllowed(r, "streamed")
       ELSE /\ h' = [h EXCEPT ![r].kind = "streamed", ![r].pc = "loop", ![r].method = m]
            /\ UNCHANGED out
            /\ HFrame

\* next cell: currentTest++, progress, sendStatus(starting)
StreamStarting(r) ==
  /\ Quiet(r)
  /\ h[r].kind = "streamed" /\ h[r].pc = "loop" /\ h[r].cell < totalCells
  /\ LET n == h[r].cell + 1
         progress == Round((h[r].currentTest + 1) * 100, totalCells)
     IN /\ h' = [h EXCEPT ![r].cell = n, ![r].currentTest = @ + 1,
                          ![r].progress = progress, ![r].pc = "send_running"]
        /\ Emit(r, StatusEvent(CellDb(n), CellOp(n), "starting", progress))
  /\ HFrame

\* sendStatus(running); await runTest(db, operation)
StreamRunning(r) ==
  /\ Quiet(r)
  /\ h[r].kind = "streamed" /\ h[r].pc = "send_running"
  /\ LET db == CellDb(h[r].cell)
         op == CellOp(h[r].cell)
     IN /\ Emit(r, StatusEvent(db, op, "running", h[r].progress)
                   @@ [recordCount |-> IF op = "write" THEN RECORD_COUNT ELSE SubsetLimit])
        /\ Invoke(r, db, op, h[r])

\* a resolved cell that goes on without the verifying status
StreamVerifyingSilent(r) ==
  /\ Quiet(r)
  /\ h[r].kind = "streamed" /\ h[r].pc = "settled" /\ ~h[r].awaited.thrown
  /\ h' = [h EXCEPT ![r].pc = "push_result"]
  /\ UNCHANGED out
  /\ HFrame

\* runTest resolved: sendStatus(verifying)
StreamVerifying(r) ==
  /\ Quiet(r)
  /\ h[r].kind = "streamed" /\ h[r].pc = "settled" /\ ~h[r].awaited.thrown
  /\ h' = [h EXCEPT ![r].pc = "push_result"]
  /\ Emit(r, StatusEvent(CellDb(h[r].cell), CellOp(h[r].cell), "verifying", h[r].progress))
  /\ HFrame

\* a resolved cell whose result is not pushed before the completed status
StreamPushSkipped(r) ==
  /\ Quiet(r)
  /\ h[r].kind = "streamed" /\ h[r].pc = "push_result"
  /\ h' = [h EXCEPT ![r].pc = "send_completed"]
  /\ UNCHANGED out
  /\ HFrame

\* allResults.push(result)
StreamPush(r) ==
  /\ Quiet(r)
  /\ h[r].kind = "streamed" /\ h[r].pc = "push_result"
  /\ h' = [h EXCEPT ![r].pc = "send_completed",
                    ![r].allResults = Append(@, h[r].awaited.value)]
  /\ UNCHANGED out
  /\ HFrame

\* sendStatus(completed); the pause between operations begins
StreamCompleted(r) ==
  /\ Quiet(r)
  /\ h[r].kind = "streamed" /\ h[r].pc = "send_completed"
  /\ h' = [h EXCEPT ![r].pc = "delay"]
  /\ Emit(r, StatusEvent(CellDb(h[r].cell), CellOp(h[r].cell), "completed", h[r].progress))
  /\ HFrame

\* the pause is over
StreamDelay(r) ==
  /\ Quiet(r)
  /\ h[r].kind = "streamed" /\ h[r].pc = "delay"
  /\ h' = [h EXCEPT ![r].pc = "loop"]
  /\ UNCHANGED out
  /\ HFrame

\* runTest rejected: catch, allResults.push(errorResult)
StreamCatch(r) ==
  /\ Quiet(r)
  /\ h[r].kind = "streamed" /\ h[r].pc = "settled" /\ h[r].awaited.thrown
  /\ h' = [h EXCEPT ![r].pc = "send_error",
                    ![r].allResults = Append(@, ErrorResult(CellDb(h[r].cell), CellOp(h[r].cell),
                                                           h[r].awaited.value.error))]
  /\ UNCHANGED out
  /\ HFrame

\* sendStatus(error)
StreamError(r) ==
  /\ Quiet(r)
  /\ h[r].kind = "streamed" /\ h[r].pc = "send_error"
  /\ h' = [h EXCEPT ![r].pc = "loop"]
  /\ Emit(r, StatusEvent(CellDb(h[r].cell), CellOp(h[r].cell), "error", h[r].progress))
  /\ HFrame

\* after the loops: the complete event is written and the response ended
StreamComplete(r) ==
  /\ Quiet(r)
  /\ h[r].kind = "streamed" /\ h[r].pc = "loop" /\ h[r].cell = totalCells
  /\ h' = [h EXCEPT ![r].pc = "done"]
  /\ out' = [out EXCEPT ![r].events = Append(@, [type |-> "complete",
                                                 results |-> h[r].allResults]),
                        ![r].ended = TRUE]
  /\ HFrame

Streamed(r) ==
  \/ StreamStart(r) \/ StreamStarting(r) \/ StreamRunning(r) \/ StreamVerifying(r)
  \/ StreamPush(r) \/ StreamCompleted(r) \/ StreamDelay(r) \/ StreamCatch(r)
  \/ StreamError(r) \/ StreamComplete(r)

----------------------------------------------------------------------------
\* all.ts: the buffered full-matrix run
RECURSIVE SumTime(_)
SumTime(results) ==
  IF results = <<>> THEN 0 ELSE Head(results).timeTaken + SumTime(Tail(results))

\* a filter that does not look at dataIntegrity
SuccessfulWithoutIntegrity(res) == res.error = NoError

Successful(res) == res.error = NoError /\ res.dataIntegrity
Failed(res) == res.error # NoError \/ ~res.dataIntegrity

Summary(allResults) ==
  [totalTests |-> Len(allResults),
   successfulTests |-> Len(SelectSeq(allResults, Successful)),
   failedTests |-> Len(SelectSeq(allResults, Failed)),
   totalTime |-> SumTime(allResults)]

BufferedStart(r) ==
  /\ Quiet(r)
  /\ h[r].pc = "none"
  /\ \E m \in Methods :
       IF m # "POST" THEN MethodNotAllowed(r, "buffered")
       ELSE /\ h' = [h EXCEPT ![r].kind = "buffered", ![r].pc = "loop", ![r].method = m]
            /\ UNCHANGED out
            /\ HFrame

\* next cell: await runTest(db, operation)
BufferedCall(r) ==
  /\ Quiet(r)
  /\ h[r].kind = "buffered" /\ h[r].pc = "loop" /\ h[r].cell < totalCells
  /\ LET n == h[r].cell + 1
     IN Invoke(r, CellDb(n), CellOp(n), [h[r] EXCEPT !.cell = n])
  /\ UNCHANGED out

\* runTest resolved: allResults.push(result); the pause between operations begins
BufferedPush(r) ==
  /\ Quiet(r)
  /\ h[r].kind = "buffered" /\ h[r].pc = "settled" /\ ~h[r].awaited.thrown
  /\ h' = [h EXCEPT ![r].pc = "delay", ![r].allResults = Append(@, h[r].awaited.value)]
  /\ UNCHANGED out
  /\ HFrame

BufferedDelay(r) ==
  /\ Quiet(r)
  /\ h[r].kind = "buffered" /\ h[r].pc = "delay"
  /\ h' = [h EXCEPT ![r].pc = "loop"]
  /\ UNCHANGED out
  /\ HFrame

\* a catch block that records nothing for the failed cell
BufferedCatchDropping(r) ==
  /\ Quiet(r)
  /\ h[r].kind = "buffered" /\ h[r].pc = "settled" /\ h[r].awaited.thrown
  /\ h' = [h EXCEPT ![r].pc = "loop"]
  /\ UNCHANGED out
  /\ HFrame

\* runTest rejected: catch, allResults.push({... error: error.message})
BufferedCatch(r) ==
  /\ Quiet(r)
  /\ h[r].kind = "buffered" /\ h[r].pc = "settled" /\ h[r].awaited.thrown
  /\ h' = [h EXCEPT ![r].pc = "loop",
                    ![r].allResults = Append(@, ErrorResult(CellDb(h[r].cell), CellOp(h[r].cell),
                                                           h[r].awaited.value.error))]
  /\ UNCHANGED out
  /\ HFrame

\* after the loops: the summary is computed and the response sent
BufferedRespond(r) ==
  /\ Quiet(r)
  /\ h[r].kind = "buffered" /\ h[r].pc = "loop" /\ h[r].cell = totalCells
  /\ h' = [h EXCEPT ![r].pc = "done"]
  /\ Respond(r, 200, [kind |-> "all", results |-> h[r].allResults,
                      summary |-> Summary(h[r].allResults)])
  /\ HFrame

Buffered(r) ==
  \/ BufferedStart(r) \/ BufferedCall(r) \/ BufferedPush(r) \/ BufferedDelay(r)
  \/ BufferedCatch(r) \/ BufferedRespond(r)

----------------------------------------------------------------------------
\* mongo.ts: the single-test endpoint of the document store
BodyOperations == validOperations \cup {"", "drop"}

SingleStart(r) ==
  /\ Quiet(r)
  /\ h[r].pc = "none"
  /\ \E m \in Methods, operation \in BodyOperations :
       IF m # "POST" THEN MethodNotAllowed(r, "single")
       ELSE IF operation = "" \/ operation \notin validOperations
       THEN /\ h' = [h EXCEPT ![r].kind = "single", ![r].pc = "done", ![r].method = m,
                              ![r].operation = operation]
            /\ Respond(r, 400, [kind |-> "error",
                                error |-> "Invalid operation. Must be: read, write, or update"])
            /\ HFrame
       ELSE /\ Invoke(r, "mongo", operation,
                      [h[r] EXCEPT !.kind = "single", !.method = m, !.operation = operation])
            /\ UNCHANGED out

\* runTest settled: 200 with the result, or 500 with the message
SingleRespond(r) ==
  /\ Quiet(r)
  /\ h[r].kind = "single" /\ h[r].pc = "settled"
  /\ h' = [h EXCEPT ![r].pc = "done"]
  /\ IF h[r].awaited.thrown
     THEN Respond(r, 500, [kind |-> "error", error |-> h[r].awaited.value.error])
     ELSE Respond(r, 200, [kind |-> "result", result |-> h[r].awaited.value])
  /\ HFrame

Single(r) == SingleStart(r) \/ SingleRespond(r)

----------------------------------------------------------------------------
\* repeat.ts: the repeated full-matrix run
RECURSIVE Sum(_)
Sum(seq) == IF seq = <<>> THEN 0 ELSE Head(seq) + Sum(Tail(seq))
Positive(t) == t > 0
Range(seq) == {seq[j] : j \in 1..Len(seq)}
MinOf(S) == CHOOSE x \in S : \A y \in S : x <= y
MaxOf(S) == CHOOSE x \in S : \A y \in S : x >= y

\* statistics whose minimum is taken over all entries
RepeatResultOverAll(db, op, times) ==
  LET validTimes == SelectSeq(times, Positive)
  IN [database |-> dbLabels[db], operation |-> op, times |-> times,
      average |-> IF Len(validTimes) > 0
                  THEN [num |-> Sum(validTimes), den |-> Len(validTimes)]
                  ELSE [num |-> 0, den |-> 1],
      min |-> IF Len(validTimes) > 0 THEN MinOf(Range(times)) ELSE 0,
      max |-> IF Len(validTimes) > 0 THEN MaxOf(Range(validTimes)) ELSE 0]

\* statistics whose mean divides by the number of all entries
RepeatResultMeanOverAll(db, op, times) ==
  LET validTimes == SelectSeq(times, Positive)
  IN [database |-> dbLabels[db], operation |-> op, times |-> times,
      average |-> IF Len(validTimes) > 0
                  THEN [num |-> Sum(validTimes), den |-> Len(times)]
                  ELSE [num |-> 0, den |-> 1],
      min |-> IF Len(validTimes) > 0 THEN MinOf(Range(validTimes)) ELSE 0,
      max |-> IF Len(validTimes) > 0 THEN MaxOf(Range(validTimes)) ELSE 0]

\* average is the rational sum / count of the valid times, kept as the pair
RepeatResult(db, op, times) ==
  LET validTimes == SelectSeq(times, Positive)
  IN [database |-> dbLabels[db], operation |-> op, times |-> times,
      average |-> IF Len(validTimes) > 0
                  THEN [num |-> Sum(validTimes), den |-> Len(validTimes)]
                  ELSE [num |-> 0, den |-> 1],
      min |-> IF Len(validTimes) > 0 THEN MinOf(Range(validTimes)) ELSE 0,
      max |-> IF Len(validTimes) > 0 THEN MaxOf(Range(validTimes)) ELSE 0]

totalOperations == totalCells * repeatCount

\* a repeated run is explored with at most MaxRepeatFaults transient faults
RepeatStart(r) ==
  /\ Quiet(r)
  /\ h[r].pc = "none"
  /\ faultsLeft <= MaxRepeatFaults
  /\ \E m \in Methods :
       IF m # "POST" THEN MethodNotAllowed(r, "repeat")
       ELSE /\ h' = [h EXCEPT ![r].kind = "repeat", ![r].pc = "loop", ![r].method = m]
            /\ UNCHANGED out
            /\ HFrame

\* next cell: times = [], sendStatus(start)
RepeatCell(r) ==
  /\ Quiet(r)
  /\ h[r].kind = "repeat" /\ h[r].pc = "loop" /\ h[r].cell < totalCells
  /\ LET n == h[r].cell + 1
     IN /\ h' = [h EXCEPT ![r].cell = n, ![r].times = <<>>, ![r].i = 0, ![r].pc = "iter"]
        /\ Emit(r, [type |-> "start", database |-> dbLabels[CellDb(n)],
                    operation |-> CellOp(n)])
  /\ HFrame

\* next iteration: totalTests++, progress, sendStatus(running), await runTest
RepeatRunning(r) ==
  /\ Quiet(r)
  /\ h[r].kind = "repeat" /\ h[r].pc = "iter" /\ h[r].i < repeatCount
  /\ LET db == CellDb(h[r].cell)
         op == CellOp(h[r].cell)
         progress == Round((h[r].currentTest + 1) * 100, totalOperations)
     IN /\ Emit(r, [type |-> "running", database |-> dbLabels[db], operation |-> op,
                    iteration |-> h[r].i + 1, total |-> repeatCount, progress |-> progress])
        /\ Invoke(r, db, op, [h[r] EXCEPT !.currentTest = @ + 1, !.progress = progress])

\* runTest resolved: times.push(result.timeTaken); the pause between iterations begins
RepeatPush(r) ==
  /\ Quiet(r)
  /\ h[r].kind = "repeat" /\ h[r].pc = "settled" /\ ~h[r].awaited.thrown
  /\ h' = [h EXCEPT ![r].pc = "iter_delay",
                    ![r].times = Append(@, h[r].awaited.value.timeTaken)]
  /\ UNCHANGED out
  /\ HFrame

\* the pause is over: i++
RepeatIterDelay(r) ==
  /\ Quiet(r)
  /\ h[r].kind = "repeat" /\ h[r].pc = "iter_delay"
  /\ h' = [h EXCEPT ![r].pc = "iter", ![r].i = @ + 1]
  /\ UNCHANGED out
  /\ HFrame

\* runTest rejected: catch, times.push(0); i++
RepeatCatch(r) ==
  /\ Quiet(r)
  /\ h[r].kind = "repeat" /\ h[r].pc = "settled" /\ h[r].awaited.thrown
  /\ h' = [h EXCEPT ![r].pc = "iter", ![r].i = @ + 1, ![r].times = Append(@, 0)]
  /\ UNCHANGED out
  /\ HFrame

\* after the iterations: statistics, allResults.push(repeatResult)
RepeatStats(r) ==
  /\ Quiet(r)
  /\ h[r].kind = "repeat" /\ h[r].pc = "iter" /\ h[r].i = repeatCount
  /\ h' = [h EXCEPT ![r].pc = "send_completed",
                    ![r].allResults = Append(@, RepeatResult(CellDb(h[r].cell),
                                                            CellOp(h[r].cell), h[r].times))]
  /\ UNCHANGED out
  /\ HFrame

\* a completed event that carries the result of the first cell
RepeatCompletedFirstResult(r) ==
  /\ Quiet(r)
  /\ h[r].kind = "repeat" /\ h[r].pc = "send_completed"
  /\ h' = [h EXCEPT ![r].pc = "cell_delay"]
  /\ Emit(r, [type |-> "completed", database |-> dbLabels[CellDb(h[r].cell)],
              operation |-> CellOp(h[r].cell), result |-> Head(h[r].allResults)])
  /\ HFrame

\* sendStatus(completed); the pause between operations begins
RepeatCompleted(r) ==
  /\ Quiet(r)
  /\ h[r].kind = "repeat" /\ h[r].pc = "send_completed"
  /\ h' = [h EXCEPT ![r].pc = "cell_delay"]
  /\ Emit(r, [type |-> "completed", database |-> dbLabels[CellDb(h[r].cell)],
              operation |-> CellOp(h[r].cell), result |-> Last(h[r].allResults)])
  /\ HFrame

RepeatCellDelay(r) ==
  /\ Quiet(r)
  /\ h[r].kind = "repeat" /\ h[r].pc = "cell_delay"
  /\ h' = [h EXCEPT ![r].pc = "loop"]
  /\ UNCHANGED out
  /\ HFrame

\* an end of the run that closes the response without the complete event
RepeatCompleteSilent(r) ==
  /\ Quiet(r)
  /\ h[r].kind = "repeat" /\ h[r].pc = "loop" /\ h[r].cell = totalCells
  /\ h' = [h EXCEPT ![r].pc = "done"]
  /\ out' = [out EXCEPT ![r].ended = TRUE]
  /\ HFrame

\* after the loops: the complete event is written and the response ended
RepeatComplete(r) ==
  /\ Quiet(r)
  /\ h[r].kind = "repeat" /\ h[r].pc = "loop" /\ h[r].cell = totalCells
  /\ h' = [h EXCEPT ![r].pc = "done"]
  /\ out' = [out EXCEPT ![r].events = Append(@, [type |-> "complete",
                                                 results |-> h[r].allResults]),
                        ![r].ended = TRUE]
  /\ HFrame

Repeated(r) ==
  \/ RepeatStart(r) \/ RepeatCell(r) \/ RepeatRunning(r) \/ RepeatPush(r)
  \/ RepeatIterDelay(r) \/ RepeatCatch(r) \/ RepeatStats(r) \/ RepeatCompleted(r)
  \/ RepeatCellDelay(r) \/ RepeatComplete(r)

----------------------------------------------------------------------------
\* index.tsx: the dashboard reading the response of a streamed run
\* runRepeatTests: progress: data.progress || 0
SeenProgress(data) == IF "progress" \in DOMAIN data THEN data.progress ELSE 0

\* A frame "data: <json>\n\n" is six pieces: the prefix in two, the JSON text
\* of the event in two, and the two newlines.
FrameLen == 6
Piece(p) ==
  LET ev == ((p - 1) \div FrameLen) + 1
      o == (p - 1) % FrameLen
  IN IF o < 2 THEN [t |-> "prefix", ev |-> 0, part |-> o + 1]
     ELSE IF o < 4 THEN [t |-> "json", ev |-> ev, part |-> o - 1]
     ELSE [t |-> "newline", ev |-> 0, part |-> 0]

\* the pieces written to the response so far
Written(r) == FrameLen * Len(out[r].events)

IsNewline(x) == x.t = "newline"
HasNewline(chunk) == \E q \in 1..Len(chunk) : IsNewline(chunk[q])
FirstNewline(chunk) ==
  CHOOSE q \in 1..Len(chunk) :
    IsNewline(chunk[q]) /\ \A u \in 1..(q - 1) : ~IsNewline(chunk[u])

\* chunk.split('\n')
RECURSIVE Split(_)
Split(chunk) ==
  IF ~HasNewline(chunk) THEN <<chunk>>
  ELSE LET q == FirstNewline(chunk)
       IN <<SubSeq(chunk, 1, q - 1)>> \o Split(SubSeq(chunk, q + 1, Len(chunk)))

\* line.startsWith('data: ')
StartsWithData(line) ==
  /\ Len(line) >= 2
  /\ line[1] = [t |-> "prefix", ev |-> 0, part |-> 1]
  /\ line[2] = [t |-> "prefix", ev |-> 0, part |-> 2]

\* JSON.parse(line.slice(6)) returns only for the whole text of one event
Parses(line) ==
  /\ Len(line) = 4
  /\ line[3].t = "json" /\ line[3].part = 1
  /\ line[4] = [line[3] EXCEPT !.part = 2]

\* for (const line of lines): the events applied, in order; a terminal event
\* breaks out of the loop over the lines of this chunk
RECURSIVE ApplyLines(_, _, _)
ApplyLines(r, lines, applied) ==
  IF lines = <<>> THEN applied
  ELSE LET line == Head(lines)
       IN IF StartsWithData(line) /\ Parses(line)
          THEN IF IsFinal(out[r].events[line[3].ev])
               THEN Append(applied, line[3].ev)
               ELSE ApplyLines(r, Tail(lines), Append(applied, line[3].ev))
          ELSE ApplyLines(r, Tail(lines), applied)

\* runAllTests / runRepeatTests: the running flag is set, fetch has answered
\* and the reader is taken.
\* The response is read from the network's buffers once it is written: a
\* division into chunks of a response read while it is written is also a
\* division of the written response.
ConsumerStart ==
  /\ cons.pc = "none"
  /\ h[1].kind \in {"streamed", "repeat"} /\ h[1].method = "POST"
  /\ out[1].ended
  /\ cons' = [IdleCons EXCEPT !.pc = "reading", !.running = TRUE]
  /\ UNCHANGED <<registry, clients, rows, down, faultsLeft, conn, closer, h, out, ad, ghost>>

\* reader.read() returns a chunk: decode, split, apply; a terminal event that
\* is applied resets the running flag
ConsumerRead ==
  /\ cons.pc = "reading"
  /\ \E len \in 1..(FrameLen * MaxChunkFrames) :
       LET end == cons.pos + len
           inside == end % FrameLen \notin {0, FrameLen - 1}
           chunk == [q \in 1..len |-> Piece(cons.pos + q)]
           applied == ApplyLines(1, Split(chunk), cons.applied)
       IN /\ end <= Written(1)
          /\ inside => cons.splits < MaxSplits
          /\ cons' = [cons EXCEPT !.pos = end,
                                  !.splits = IF inside THEN @ + 1 ELSE @,
                                  !.applied = applied,
                                  !.running = @ /\ \A j \in 1..Len(applied) :
                                                      ~IsFinal(out[1].events[applied[j]])]
  /\ UNCHANGED <<registry, clients, rows, down, faultsLeft, conn, closer, h, out, ad, ghost>>

\* reader.read() returns done: the response has ended and was read to its end
ConsumerDone ==
  /\ cons.pc = "reading"
  /\ out[1].ended /\ cons.pos = Written(1)
  /\ cons' = [cons EXCEPT !.pc = "done"]
  /\ UNCHANGED <<registry, clients, rows, down, faultsLeft, conn, closer, h, out, ad, ghost>>

Consumer == ConsumerStart \/ ConsumerRead \/ ConsumerDone

(***************************************************************************)
(* The adapters step by step: one step for each stretch of code between    *)
(* two awaits, one for each answer of the backend.                         *)
(***************************************************************************)
AdFrame == UNCHANGED <<registry, clients, down, conn, closer, h, out, cons, ghost>>

\* the LIMIT of the discovery query
DiscoveryLimit(b, k) == IF b = "cassandra" THEN Min(k, SubsetLimit) ELSE k
\* records carried by one insert request: the document store receives all of
\* them in one insertMany, the other stores one row per INSERT
PerInsert(b, n) == IF b = "mongo" THEN n ELSE 1

\* the catch block of an adapter
AdapterCatch(a, message) ==
  [a EXCEPT !.pc = "returned",
            !.result = TestResult(dbLabels[a.db], a.op, EnvNominal.elapsed, a.count,
                                  FALSE, message)]

\* a return statement of the try block
AdapterReturn(a, n, integrity, message) ==
  [a EXCEPT !.pc = "returned",
            !.result = TestResult(dbLabels[a.db], a.op, EnvNominal.elapsed, n,
                                  integrity, message)]

\* a write adapter that dispatches every insert at once
DispatchInsertsUnchunked(a) ==
  [a EXCEPT !.pc = "insert", !.i = a.count,
            !.inflight = @ + a.count \div PerInsert(a.db, a.count),
            !.carried = @ + a.count]

\* the inserts of the chunk that starts at a.i, all dispatched at once; the
\* document store receives all records in one request
DispatchInserts(a) ==
  LET chunk == IF a.db = "mongo" THEN a.count ELSE Min(batchSize, a.count - a.i)
  IN [a EXCEPT !.pc = "insert", !.i = @ + chunk,
               !.inflight = @ + chunk \div PerInsert(a.db, a.count),
               !.carried = @ + chunk]

\* an adapter that skips the check of its client
AdapterInvokeUnchecked(b, op, count) ==
  /\ ad.pc = "idle" /\ h[1].pc = "none"
  /\ LET a == [ad EXCEPT !.db = b, !.op = op, !.count = count,
                         !.handle = getHandle(b) # Null,
                         !.records = IF op = "write" THEN generateTestData(count)
                                     ELSE <<>>]
     IN ad' = IF op = "write" THEN DispatchInserts(a)
              ELSE [a EXCEPT !.pc = "discover", !.sent.discover = @ + 1]
  /\ UNCHANGED <<rows, faultsLeft>>
  /\ AdFrame

\* the adapter from its call to its first await
AdapterInvoke(b, op, count) ==
  /\ ad.pc = "idle" /\ h[1].pc = "none"
  /\ LET a == [ad EXCEPT !.db = b, !.op = op, !.count = count,
                         !.handle = getHandle(b) # Null,
                         !.records = IF op = "write" THEN generateTestData(count)
                                     ELSE <<>>]
     IN ad' = IF ~a.handle
              THEN AdapterCatch(a, dbLabels[b] \o " client not initialized")
              ELSE IF op = "write" THEN DispatchInserts(a)
              ELSE [a EXCEPT !.pc = "discover", !.sent.discover = @ + 1]
  /\ UNCHANGED <<rows, faultsLeft>>
  /\ AdFrame

\* the caller has taken the result of a read and calls the same adapter a
\* second time, with as many identifiers (two iterations of a read cell)
AdapterRepeat ==
  /\ ad.pc = "returned" /\ ad.op = "read" /\ ad.prev = NullResult
  /\ LET a == [IdleAd EXCEPT !.db = ad.db, !.op = ad.op, !.count = ad.count,
                             !.handle = getHandle(ad.db) # Null, !.prev = ad.result]
     IN ad' = IF ~a.handle
              THEN AdapterCatch(a, dbLabels[ad.db] \o " client not initialized")
              ELSE [a EXCEPT !.pc = "discover", !.sent.discover = @ + 1]
  /\ UNCHANGED <<rows, faultsLeft>>
  /\ AdFrame

\* one insert request is answered while the adapter awaits the chunk; an
\* insertMany that fails may have stored some of its records
InsertAnswer ==
  /\ ad.pc = "insert"
  /\ ad.inflight > 0
  /\ \E a \in Answers(ad.db, FALSE) :
       /\ Charge(ad.db, a)
       /\ LET landed == [ad EXCEPT !.inflight = @ - 1,
                                   !.carried = @ - PerInsert(ad.db, ad.count)]
          IN IF a = "ok"
             THEN /\ ad' = landed
                  /\ rows' = [rows EXCEPT ![ad.db] = @ + PerInsert(ad.db, ad.count)]
             ELSE /\ ad' = AdapterCatch([landed EXCEPT !.seen.rejected = "insert"],
                                        RequestFailed)
                  /\ \E partial \in IF ad.db = "mongo" THEN {0, ad.count - 1} ELSE {0} :
                       rows' = [rows EXCEPT ![ad.db] = @ + partial]
  /\ AdFrame

\* a write adapter that reads back as soon as the last insert is dispatched
ChunkDoneEarly ==
  /\ ad.pc = "insert"
  /\ ad.inflight = 0 \/ ad.i = ad.count
  /\ ad' = IF ad.i < ad.count THEN DispatchInserts(ad)
           ELSE [ad EXCEPT !.pc = "verify", !.sent.verify = @ + 1]
  /\ UNCHANGED <<rows, faultsLeft>>
  /\ AdFrame

\* Promise.all of the chunk has resolved: the next chunk, or the read-back
ChunkDone ==
  /\ ad.pc = "insert"
  /\ ad.inflight = 0
  /\ ad' = IF ad.i < ad.count THEN DispatchInserts(ad)
           ELSE [ad EXCEPT !.pc = "verify", !.sent.verify = @ + 1]
  /\ UNCHANGED <<rows, faultsLeft>>
  /\ AdFrame

\* an insert still in flight when the adapter has returned is answered
InsertLate ==
  /\ ad.pc = "returned" /\ ad.op = "write"
  /\ ad.inflight > 0
  /\ ad' = [ad EXCEPT !.inflight = @ - 1, !.carried = @ - PerInsert(ad.db, ad.count)]
  /\ rows' = [rows EXCEPT ![ad.db] = @ + PerInsert(ad.db, ad.count)]
  /\ UNCHANGED faultsLeft
  /\ AdFrame

\* the reads or updates still in flight when the adapter has returned are
\* answered
RecordLate ==
  /\ ad.pc = "returned" /\ ad.op # "write"
  /\ ad.inflight > 0
  /\ ad' = [ad EXCEPT !.inflight = 0,
                      !.applied = IF ad.op = "update" THEN @ + ad.inflight ELSE @]
  /\ UNCHANGED <<rows, faultsLeft>>
  /\ AdFrame

\* the read-back of the write and update adapters is answered: the row as
\* expected, no row, or a failed request; after a write also a row with another
\* name ("mismatch"); after an update also a row whose age is the text "99", a
\* row whose age is not 99, or a row with age 99 whose name lacks "Updated
\* User".  The wide-column and the document adapter compare age with !== 99 and
\* do not look at the name; the SQL adapter coerces age and looks at the name.
VerifyAnswer ==
  /\ ad.pc = "verify"
  /\ \E v \in {"match"} \cup
              (IF faultsLeft = 0 THEN {}
               ELSE IF ad.op = "write" THEN {"missing", "mismatch", "other"}
               ELSE {"missing", "age_text", "age_other", "name_other", "other"}) :
       /\ faultsLeft' = IF v = "match" THEN faultsLeft ELSE faultsLeft - 1
       /\ ad' = IF v = "other"
                THEN AdapterCatch([ad EXCEPT !.seen.rejected = "verify"], RequestFailed)
                ELSE AdapterReturn([ad EXCEPT !.seen.verify = v],
                                   IF ad.op = "write" THEN ad.count ELSE ad.ids,
                                   \/ v = "match"
                                   \/ v = "age_text" /\ ad.db = "cockroach"
                                   \/ v = "name_other" /\ ad.db # "cockroach",
                                   NoError)
  /\ UNCHANGED rows
  /\ AdFrame

\* a discovery whose result is ignored in favour of the caller's identifiers
DiscoverAnswerFromCaller ==
  /\ ad.pc = "discover"
  /\ \E a \in Answers(ad.db, FALSE) :
       /\ Charge(ad.db, a)
       /\ ad' = IF a = "other"
                THEN AdapterCatch([ad EXCEPT !.seen.rejected = "discover"], RequestFailed)
                ELSE LET ids == Min(ad.count, SubsetLimit)
                     IN [ad EXCEPT !.pc = "group",
                                   !.discovered = Discovered(rows[ad.db],
                                                    DiscoveryLimit(ad.db, ad.count)),
                                   !.ids = ids, !.source = "caller",
                                   !.inflight = ids, !.sent.record = @ + ids]
  /\ UNCHANGED rows
  /\ AdFrame

\* a discovery that removes the rows it returns from the table
DiscoverAnswerConsuming ==
  /\ ad.pc = "discover"
  /\ \E a \in Answers(ad.db, FALSE) :
       /\ Charge(ad.db, a)
       /\ LET found == Discovered(rows[ad.db], DiscoveryLimit(ad.db, ad.count))
              ids == Selected(rows[ad.db], DiscoveryLimit(ad.db, ad.count), ad.count)
          IN /\ ad' = IF a = "other"
                      THEN AdapterCatch([ad EXCEPT !.seen.rejected = "discover"],
                                        RequestFailed)
                      ELSE IF found = 0
                      THEN AdapterReturn([ad EXCEPT !.discovered = 0], 0, FALSE,
                                         NoRecordsMessage)
                      ELSE [ad EXCEPT !.pc = "group", !.discovered = found,
                                      !.ids = ids, !.source = "stored",
                                      !.inflight = ids, !.sent.record = @ + ids]
             /\ rows' = [rows EXCEPT ![ad.db] = IF a = "other" THEN @ ELSE @ - found]
  /\ AdFrame

\* the discovery query is answered: early return, or one request per
\* identifier selected from the rows it returned
DiscoverAnswer ==
  /\ ad.pc = "discover"
  /\ \E a \in Answers(ad.db, FALSE) :
       /\ Charge(ad.db, a)
       /\ ad' = IF a = "other"
                THEN AdapterCatch([ad EXCEPT !.seen.rejected = "discover"], RequestFailed)
                ELSE LET found == Discovered(rows[ad.db], DiscoveryLimit(ad.db, ad.count))
                         ids == Selected(rows[ad.db], DiscoveryLimit(ad.db, ad.count),
                                         ad.count)
                     IN IF found = 0
                        THEN AdapterReturn([ad EXCEPT !.discovered = 0], 0, FALSE,
                                           NoRecordsMessage)
                        ELSE [ad EXCEPT !.pc = "group", !.discovered = found,
                                        !.ids = ids, !.source = "stored",
                                        !.inflight = ids, !.sent.record = @ + ids]
  /\ UNCHANGED rows
  /\ AdFrame

\* a read adapter that checks the first row only
GroupSettleFirstRowOnly ==
  /\ ad.pc = "group"
  /\ \E g \in {"whole"} \cup (IF faultsLeft = 0 THEN {}
                             ELSE IF ad.op = "read"
                             THEN {"missing", "no_id", "no_name", "no_age", "other"}
                             ELSE {"other"}) :
       /\ faultsLeft' = IF g = "whole" THEN faultsLeft ELSE faultsLeft - 1
       /\ \E late \in IF g = "other" THEN {0, ad.ids - 1} ELSE {0} :
          LET a == [ad EXCEPT !.inflight = late, !.seen.group = g]
          IN ad' = IF g = "other"
                   THEN AdapterCatch([a EXCEPT !.seen.rejected = "record"], RequestFailed)
                   ELSE IF ad.op = "read"
                   THEN AdapterReturn(a, ad.ids, g \notin {"no_id", "no_name"}, NoError)
                   ELSE IF ad.db = "cockroach" THEN [a EXCEPT !.pc = "settle"]
                   ELSE [a EXCEPT !.pc = "verify", !.sent.verify = @ + 1]
  /\ UNCHANGED rows
  /\ AdFrame

\* an update adapter whose requests all name the first identifier
GroupSettleUnapplied ==
  /\ ad.pc = "group"
  /\ \E g \in {"whole"} \cup (IF faultsLeft = 0 THEN {}
                             ELSE IF ad.op = "read"
                             THEN {"missing", "no_id", "no_name", "no_age", "other"}
                             ELSE {"other"}) :
       /\ faultsLeft' = IF g = "whole" THEN faultsLeft ELSE faultsLeft - 1
       /\ \E late \in IF g = "other" THEN {0, ad.ids - 1} ELSE {0} :
          LET a == [ad EXCEPT !.inflight = late, !.seen.group = g,
                              !.applied = IF ad.op # "update" THEN 0 ELSE 1]
          IN ad' = IF g = "other"
                   THEN AdapterCatch([a EXCEPT !.seen.rejected = "record"], RequestFailed)
                   ELSE IF ad.op = "read"
                   THEN AdapterReturn(a, ad.ids,
                                      g = "whole" \/ (g = "no_age" /\ ad.db # "cockroach"),
                                      NoError)
                   ELSE IF ad.db = "cockroach" THEN [a EXCEPT !.pc = "settle"]
                   ELSE [a EXCEPT !.pc = "verify", !.sent.verify = @ + 1]
  /\ UNCHANGED rows
  /\ AdFrame

\* an SQL update adapter that reads back without sleeping
GroupSettleWithoutDelay ==
  /\ ad.pc = "group"
  /\ \E g \in {"whole"} \cup (IF faultsLeft = 0 THEN {}
                             ELSE IF ad.op = "read"
                             THEN {"missing", "no_id", "no_name", "no_age", "other"}
                             ELSE {"other"}) :
       /\ faultsLeft' = IF g = "whole" THEN faultsLeft ELSE faultsLeft - 1
       /\ \E late \in IF g = "other" THEN {0, ad.ids - 1} ELSE {0} :
          LET a == [ad EXCEPT !.inflight = late, !.seen.group = g,
                              !.applied = IF ad.op # "update" THEN 0
                                          ELSE IF g = "whole" THEN ad.ids
                                          ELSE ad.ids - 1 - late]
          IN ad' = IF g = "other"
                   THEN AdapterCatch([a EXCEPT !.seen.rejected = "record"], RequestFailed)
                   ELSE IF ad.op = "read"
                   THEN AdapterReturn(a, ad.ids,
                                      g = "whole" \/ (g = "no_age" /\ ad.db # "cockroach"),
                                      NoError)
                   ELSE [a EXCEPT !.pc = "verify", !.sent.verify = @ + 1]
  /\ UNCHANGED rows
  /\ AdFrame

\* Promise.all of the per-record requests has settled.  The reads show every
\* row found and whole, some read without a row, the first row without id,
\* name or age, or a failed request; only the SQL store's adapter looks at age.
\* The updates succeed, each on the row of its own identifier, or one of
\* them fails.  Promise.all rejects with the first rejection: the failed
\* request is the last of the group to be answered, or the first, and then
\* the others are still in flight (late) when the catch block returns.
\* The update adapter of the SQL store sleeps before it reads back.
GroupSettle ==
  /\ ad.pc = "group"
  /\ \E g \in {"whole"} \cup (IF faultsLeft = 0 THEN {}
                             ELSE IF ad.op = "read"
                             THEN {"missing", "no_id", "no_name", "no_age", "other"}
                             ELSE {"other"}) :
       /\ faultsLeft' = IF g = "whole" THEN faultsLeft ELSE faultsLeft - 1
       /\ \E late \in IF g = "other" THEN {0, ad.ids - 1} ELSE {0} :
          LET a == [ad EXCEPT !.inflight = late, !.seen.group = g,
                              !.applied = IF ad.op # "update" THEN 0
                                          ELSE IF g = "whole" THEN ad.ids
                                          ELSE ad.ids - 1 - late]
          IN ad' = IF g = "other"
                   THEN AdapterCatch([a EXCEPT !.seen.rejected = "record"], RequestFailed)
                   ELSE IF ad.op = "read"
                   THEN AdapterReturn(a, ad.ids,
                                      g = "whole" \/ (g = "no_age" /\ ad.db # "cockroach"),
                                      NoError)
                   ELSE IF ad.db = "cockroach" THEN [a EXCEPT !.pc = "settle"]
                   ELSE [a EXCEPT !.pc = "verify", !.sent.verify = @ + 1]
  /\ UNCHANGED rows
  /\ AdFrame

\* the sleep of the SQL store's update adapter has elapsed
SettleElapsed ==
  /\ ad.pc = "settle"
  /\ ad' = [ad EXCEPT !.pc = "verify", !.sent.verify = @ + 1]
  /\ UNCHANGED <<rows, faultsLeft>>
  /\ AdFrame

(***************************************************************************)
(* The registry under the calls of its interface: connect for any backend *)
(* from two callers, and closeAllConnections.                              *)
(***************************************************************************)
\* the registry after connect has succeeded once for each backend of S
ConnectedRegistry(S) ==
  [cassandraClient |-> IF "cassandra" \in S THEN 2 ELSE Null,
   mongoClient |-> IF "mongo" \in S THEN 1 ELSE Null,
   mongoDb |-> IF "mongo" \in S THEN 2 ELSE Null,
   cockroachClient |-> IF "cockroach" \in S THEN 2 ELSE Null]

ConnectedClients(S) ==
  [b \in DatabaseType |->
     IF b \notin S THEN <<>>
     ELSE IF b = "mongo"
     THEN <<[role |-> "main", state |-> "open", closes |-> 0],
            [role |-> "db", state |-> "new", closes |-> 0]>>
     ELSE <<[role |-> "temp", state |-> "closed", closes |-> 1],
            [role |-> "main", state |-> "open", closes |-> 0]>>]

InitRegistry ==
  /\ \E S \in SUBSET DatabaseType :
       /\ registry = ConnectedRegistry(S)
       /\ clients = ConnectedClients(S)
       /\ ghost = [first |-> [b \in DatabaseType |-> getHandle(b)], calls |-> 0,
                   concurrent |-> FALSE]
  /\ rows = [b \in DatabaseType |-> 0]
  /\ down = {}
  /\ faultsLeft = MaxRegistryFaults
  /\ conn = [c \in Slots |-> IdleConn]
  /\ closer = [pc |-> "idle", target |-> Null]
  /\ h = [r \in Slots |-> IdleHandler]
  /\ out = [r \in Slots |-> IdleOut]
  /\ cons = IdleCons
  /\ ad = IdleAd

NextRegistry ==
  \/ \E c \in Slots : ApiConnect(c) \/ Connect(c)
  \/ CloseAllBegin \/ CloseCassandra \/ CloseMongo \/ CloseCockroach

SpecRegistry == InitRegistry /\ [][NextRegistry]_vars

(***************************************************************************)
(* One request to a test endpoint from a fresh process: a run of a matrix  *)
(* runner (buffered, streamed or repeated), or a single test.              *)
(***************************************************************************)
FreshRegistry ==
  [cassandraClient |-> Null, mongoClient |-> Null, mongoDb |-> Null, cockroachClient |-> Null]

\* the backends are all up, or some of them are down for the whole run
Outages == {{}, {"mongo"}, {"cassandra", "cockroach"}, DatabaseType}

InitProcess(budgets, outages) ==
  /\ registry = FreshRegistry
  /\ clients = [b \in DatabaseType |-> <<>>]
  /\ \E stored \in {0, RECORD_COUNT} : rows = [b \in DatabaseType |-> stored]
  /\ down \in outages
  /\ faultsLeft \in budgets
  /\ conn = [c \in Slots |-> IdleConn]
  /\ closer = [pc |-> "idle", target |-> Null]
  /\ h = [r \in Slots |-> IdleHandler]
  /\ out = [r \in Slots |-> IdleOut]
  /\ cons = IdleCons
  /\ ad = IdleAd
  /\ ghost = [first |-> [b \in DatabaseType |-> Null], calls |-> 0, concurrent |-> FALSE]

NextRunner ==
  \/ Buffered(1) \/ Streamed(1) \/ Repeated(1) \/ Single(1)
  \/ Connect(1) \/ RunTestSettle(1)

SpecRunner == InitProcess({MaxFaults, MaxRepeatFaults}, Outages) /\ [][NextRunner]_vars

(***************************************************************************)
(* The server handling two requests at overlapping times: a single test or *)
(* a full-matrix run in slot 1, a single test of the document store in     *)
(* slot 2.  No transient fault occurs; the document store may be down.     *)
(***************************************************************************)
NextServer ==
  \/ Buffered(1) \/ Streamed(1)
  \/ \E r \in Slots : Single(r) \/ Connect(r) \/ RunTestSettle(r)

SpecServer == InitProcess({0}, {{}, {"mongo"}}) /\ [][NextServer]_vars

(***************************************************************************)
(* The dashboard reading the response of a streamed full-matrix run.  No   *)
(* transient fault occurs; the document store may be down.                 *)
(***************************************************************************)
NextConsumer == Streamed(1) \/ Connect(1) \/ RunTestSettle(1) \/ Consumer

SpecConsumer == InitProcess({0}, {{}, {"mongo"}}) /\ [][NextConsumer]_vars

(***************************************************************************)
(* dbConnectors.ts under one direct call: of an adapter, or of runTest     *)
(* with any pair of strings.  The registry holds the handle of every       *)
(* backend or of none; a table holds no row, one row, or more rows than a  *)
(* subset test selects.  records.length is below, at and above the chunk   *)
(* size; recordIds.length is below, at and above the subset limit.  A read *)
(* may be called a second time.                                            *)
(***************************************************************************)
InitAdapter ==
  /\ \E S \in {{}, DatabaseType} :
       /\ registry = ConnectedRegistry(S)
       /\ clients = ConnectedClients(S)
       /\ ghost = [first |-> [b \in DatabaseType |-> getHandle(b)], calls |-> 0,
                   concurrent |-> FALSE]
  /\ \E stored \in {0, 1, SubsetLimit + batchSize} : rows = [b \in DatabaseType |-> stored]
  /\ down = {}
  /\ faultsLeft = MaxFaults
  /\ conn = [c \in Slots |-> IdleConn]
  /\ closer = [pc |-> "idle", target |-> Null]
  /\ h = [r \in Slots |-> IdleHandler]
  /\ out = [r \in Slots |-> IdleOut]
  /\ cons = IdleCons
  /\ ad = IdleAd

NextAdapter ==
  \/ \E b \in DatabaseType :
       \/ \E n \in {1, batchSize, batchSize + 1, 2 * batchSize + 1} :
            AdapterInvoke(b, "write", n)
       \/ \E op \in {"read", "update"}, k \in {1, SubsetLimit, SubsetLimit + 1} :
            AdapterInvoke(b, op, k)
  \/ AdapterRepeat
  \/ InsertAnswer \/ ChunkDone \/ InsertLate \/ RecordLate \/ VerifyAnswer
  \/ DiscoverAnswer \/ GroupSettle \/ SettleElapsed
  \/ \E dbType \in DatabaseType \cup {"redis"}, operation \in OperationType \cup {"delete"} :
       RunTestCall(1, dbType, operation)
  \/ Connect(1) \/ RunTestSettle(1)

SpecAdapter == InitAdapter /\ [][NextAdapter]_vars

(***************************************************************************)
(* The statistics of one cell of a repeated run: the handler has measured  *)
(* the ten iterations of the first cell, each entry being 0 or one of two  *)
(* durations, and computes and reports the cell's RepeatTestResult.        *)
(***************************************************************************)
InitStats ==
  /\ registry = ConnectedRegistry({"cassandra"})
  /\ clients = ConnectedClients({"cassandra"})
  /\ rows = [b \in DatabaseType |-> 0]
  /\ down = {}
  /\ faultsLeft = 0
  /\ conn = [c \in Slots |-> IdleConn]
  /\ closer = [pc |-> "idle", target |-> Null]
  /\ \E times \in [1..repeatCount -> {0, 1, 3}] :
       h = [r \in Slots |->
              IF r # 1 THEN IdleHandler
              ELSE [IdleHandler EXCEPT
                      !.kind = "repeat", !.method = "POST", !.pc = "iter", !.cell = 1,
                      !.i = repeatCount, !.currentTest = repeatCount,
                      !.progress = Round(repeatCount * 100, totalOperations),
                      !.times = times,
                      !.invoked = [j \in 1..repeatCount |-> <<CellDb(1), CellOp(1)>>]]]
  /\ out = [r \in Slots |->
              IF r # 1 THEN IdleOut
              ELSE [IdleOut EXCEPT !.events =
                      <<[type |-> "start", database |-> dbLabels[CellDb(1)],
                         operation |-> CellOp(1)]>>
                      \o [j \in 1..repeatCount |->
                            [type |-> "running", database |-> dbLabels[CellDb(1)],
                             operation |-> CellOp(1), iteration |-> j,
                             total |-> repeatCount,
                             progress |-> Round(j * 100, totalOperations)]]]]
  /\ cons = IdleCons
  /\ ad = IdleAd
  /\ ghost = [first |-> [b \in DatabaseType |-> Null], calls |-> repeatCount,
              concurrent |-> FALSE]

NextStats == RepeatStats(1) \/ RepeatCompleted(1)

SpecStats == InitStats /\ [][NextStats]_vars

(***************************************************************************)
(* Properties of the matrix runners                                        *)
(***************************************************************************)
\* the cells in the order the matrix is documented to run them
MatrixOrder ==
  << <<"cassandra", "write">>, <<"cassandra", "read">>, <<"cassandra", "update">>,
     <<"mongo", "write">>, <<"mongo", "read">>, <<"mongo", "update">>,
     <<"cockroach", "write">>, <<"cockroach", "read">>, <<"cockroach", "update">> >>

\* res is a result of cell n, under the backend's identifier or its display name
OfCell(res, n) ==
  /\ res.operation = MatrixOrder[n][2]
  /\ res.database \in {MatrixOrder[n][1], dbLabels[MatrixOrder[n][1]]}

FullMatrix(results) ==
  /\ Len(results) = Len(MatrixOrder)
  /\ \A n \in 1..Len(results) : OfCell(results[n], n)

\* C1: the result collection a buffered or streamed full-matrix run delivers
\* holds exactly one TestResult per cell, in matrix order, whichever cells failed.
C1_OneResultPerCell ==
  /\ (h[1].kind = "buffered" /\ out[1].status = 200) => FullMatrix(out[1].json.results)
  /\ (h[1].kind = "streamed" /\ out[1].ended) => FullMatrix(Last(out[1].events).results)

\* a streamed run has delivered its collection, in which a cell failed in the
\* runner's catch block and another in its adapter
C1_Witness ==
  /\ h[1].kind = "streamed" /\ out[1].ended
  /\ \E n, m \in 1..Len(h[1].allResults) :
       /\ h[1].allResults[n].error = NullishThrown
       /\ h[1].allResults[m].error = RequestFailed

\* the invocations of runTest made so far, as the runner has recorded them
Recorded(r) ==
  IF h[r].kind = "repeat"
  THEN Len(h[r].allResults) * repeatCount + Len(h[r].times)
  ELSE Len(h[r].allResults)

\* the cell the k-th invocation of a run belongs to
CellOfCall(r, k) ==
  IF h[r].kind = "repeat" THEN ((k - 1) \div 10) + 1 ELSE k

\* C2: each runner invokes runTest cell by cell in matrix order (in repeated mode
\* ten consecutive times per cell), and only when every earlier invocation has
\* resolved and its result has been recorded.
C2_SequentialInOrder ==
  [][(h'[1].kind # "single" /\ Len(h'[1].invoked) # Len(h[1].invoked)) =>
       /\ Len(h'[1].invoked) = Len(h[1].invoked) + 1
       /\ conn[1].pc = "idle"
       /\ Recorded(1) = Len(h[1].invoked)
       /\ Last(h'[1].invoked) = MatrixOrder[CellOfCall(1, Len(h'[1].invoked))]]_vars

\* a repeated run has started its second cell
C2_Witness ==
  /\ h[1].kind = "repeat" /\ h[1].pc = "await_runTest"
  /\ Len(h[1].invoked) = 11

\* the status events of a streamed full-matrix run, without its terminal event
IsStatus(e) == "status" \in DOMAIN e
StatusEvents(r) == SelectSeq(out[r].events, IsStatus)
IsTerminalStatus(e) == IsStatus(e) /\ e.status \in {"completed", "error"}

\* evs continues a stream in which cell n last emitted the status prev
RECURSIVE CellTrace(_, _, _)
CellTrace(evs, n, prev) ==
  IF evs = <<>> THEN TRUE
  ELSE LET e == Head(evs)
           m == IF e.status = "starting" THEN n + 1 ELSE n
       IN /\ m \in 1..Len(MatrixOrder)
          /\ e.currentDatabase = dbLabels[MatrixOrder[m][1]]
          /\ e.currentOperation = MatrixOrder[m][2]
          /\ CASE e.status = "starting" -> prev \in {"none", "completed", "error"}
               [] e.status = "running" -> prev = "starting"
               [] e.status = "verifying" -> prev = "running"
               [] e.status = "completed" -> prev = "verifying"
               [] e.status = "error" -> prev \in {"running", "verifying"}
               [] OTHER -> FALSE
          /\ CellTrace(Tail(evs), m, e.status)

\* C4: in the streamed full-matrix run every cell emits starting, running,
\* verifying, completed, or that sequence cut short by one error event after
\* running or after verifying; a cell starts only after the terminal status of
\* the previous one, and a finished run has one terminal status per cell.
C4_StatusSequence ==
  h[1].kind = "streamed" =>
    /\ CellTrace(StatusEvents(1), 0, "none")
    /\ out[1].ended =>
         /\ Len(SelectSeq(out[1].events, IsTerminalStatus)) = Len(MatrixOrder)
         /\ IsTerminalStatus(Last(StatusEvents(1)))

\* a streamed run has ended in which one cell completed and another errored
C4_Witness ==
  /\ h[1].kind = "streamed" /\ out[1].ended
  /\ \E j, k \in 1..Len(out[1].events) :
       /\ IsStatus(out[1].events[j]) /\ out[1].events[j].status = "completed"
       /\ IsStatus(out[1].events[k]) /\ out[1].events[k].status = "error"

IsTerminal(e) == IsFinal(e)
IsStream(r) == h[r].kind \in {"streamed", "repeat"} /\ h[r].method = "POST"

\* C5: a streamed run (full matrix or repeated) emits at most one terminal
\* event, nothing after it, and has emitted exactly one when it is over: a
\* complete event carrying the results of all cells, or an error event.
C5_OneTerminalEvent ==
  IsStream(1) =>
    LET events == out[1].events
        terminals == SelectSeq(events, IsTerminal)
    IN /\ Len(terminals) <= 1
       /\ Len(terminals) = 1 =>
            /\ IsTerminal(Last(events))
            /\ out[1].ended
            /\ Last(events).type = "complete" =>
                 /\ Last(events).results = h[1].allResults
                 /\ Len(Last(events).results) = Len(MatrixOrder)
       /\ (h[1].pc = "done" \/ out[1].ended) => Len(terminals) = 1

\* a repeated run is over, its stream ended by the complete event
C5_Witness ==
  /\ h[1].kind = "repeat" /\ h[1].method = "POST" /\ h[1].pc = "done"
  /\ Last(out[1].events).type = "complete"

IsCellEnd(e) ==
  \/ IsTerminalStatus(e)
  \/ "type" \in DOMAIN e /\ e.type = "completed"

\* C6: in both streamed runners the results accumulated so far are as many as
\* the cells whose terminal status has been emitted or is the next thing
\* emitted, and the j-th terminal status is of the cell of the j-th result.
C6_ResultBeforeCompleted ==
  IsStream(1) =>
    LET ends == SelectSeq(out[1].events, IsCellEnd)
        pending == IF h[1].pc \in {"send_completed", "send_error"} THEN 1 ELSE 0
    IN /\ Len(h[1].allResults) = Len(ends) + pending
       /\ \A j \in 1..Len(ends) :
            IF h[1].kind = "repeat"
            THEN /\ ends[j].result = h[1].allResults[j]
                 /\ OfCell(ends[j].result, j) /\ OfCell(ends[j], j)
            ELSE /\ OfCell(h[1].allResults[j], j)
                 /\ ends[j].currentOperation = MatrixOrder[j][2]
                 /\ ends[j].currentDatabase = dbLabels[MatrixOrder[j][1]]

\* the streamed runner has pushed a cell's result and is about to emit completed
C6_Witness ==
  /\ h[1].kind = "streamed" /\ h[1].pc = "send_completed"
  /\ Len(h[1].allResults) = 2

\* error set implies dataIntegrity false
Sound(res) == res.error # NoError => ~res.dataIntegrity
AllEnvs == {EnvNominal} \cup Deviations

\* C8: every TestResult has dataIntegrity false when its error is set: the ones
\* runTest can return for the cell being run, whatever the adapter meets, and
\* the ones the runners hold, deliver and build in their catch blocks.
C8_ErrorImpliesNoIntegrity ==
  /\ h[1].pc = "await_runTest" =>
       LET db == Last(h[1].invoked)[1]
           op == Last(h[1].invoked)[2]
       IN \A connected, handle \in BOOLEAN, env \in AllEnvs :
            Sound(runTest(db, op, connected, handle, rows[db], env))
  /\ Sound(h[1].awaited.value)
  /\ h[1].kind \in {"buffered", "streamed"} =>
       \A n \in 1..Len(h[1].allResults) : Sound(h[1].allResults[n])

\* results with an error set are held from the runner's catch block, from
\* runTest's catch block and from an adapter's catch block
C8_Witness ==
  /\ h[1].kind = "buffered"
  /\ \E j, k, l \in 1..Len(h[1].allResults) :
       /\ h[1].allResults[j].error = NullishThrown
       /\ h[1].allResults[k].error = ConnectFailed
       /\ h[1].allResults[l].error = RequestFailed

\* the requests that have invoked runTest and not yet seen it settle
Executing == {r \in Slots : h[r].pc = "await_runTest"}

\* C3: at any time at most one cell is executing in the process, also while
\* several requests are handled at overlapping times.
C3_OneCellAtATime == Cardinality(Executing) <= 1

\* C7: whatever the chunks the reader returns, the dashboard has applied
\* every event the server emitted, once and in emission order, when it has read
\* the response to its end.
C7_EveryEventApplied ==
  cons.pc = "done" => cons.applied = [j \in 1..Len(out[1].events) |-> j]

(***************************************************************************)
(* Properties of the connection registry                                   *)
(***************************************************************************)
\* the clients of backend b that were stored as its handle and are not closed
LiveHandles(b) ==
  {id \in DOMAIN clients[b] : clients[b][id].role = "main" /\ clients[b][id].state # "closed"}

C10_BootstrapFailurePropagates ==
  \A c \in Slots :
    /\ conn[c].pc = "returned" => ~conn[c].sawOther
    /\ conn[c].pc = "threw" => conn[c].sawOther

\* the clients of backend b that were stored as its handle
Handles(b) == {id \in DOMAIN clients[b] : clients[b][id].role = "main"}

\* C11: when closeAllConnections completes, no connect call having overlapped
\* it, every accessor returns null and every client that was cached as a handle
\* has been closed exactly once; a call of closeAllConnections on the emptied
\* registry closes nothing and leaves the registry empty.
C11_CloseAllEmpties ==
  [][/\ (closer'.pc = "done" /\ closer.pc # "done" /\ ~ghost'.concurrent) =>
          /\ registry' = FreshRegistry
          /\ \A b \in DatabaseType : \A id \in DOMAIN clients'[b] :
               clients'[b][id].role = "main" =>
                 clients'[b][id].state = "closed" /\ clients'[b][id].closes = 1
     /\ (closer.pc = "done" /\ registry = FreshRegistry
           /\ ghost'.calls # ghost.calls /\ conn' = conn) =>
          /\ closer'.pc = "done"
          /\ clients' = clients
          /\ registry' = FreshRegistry]_vars

\* closeAllConnections has completed twice in a row, the first time on a
\* registry with all three backends connected
C11_Witness ==
  /\ closer.pc = "done" /\ ~ghost.concurrent /\ ghost.calls = 2
  /\ \A c \in Slots : conn[c].pc = "idle"
  /\ registry = FreshRegistry
  /\ \A b \in DatabaseType : \E id \in Handles(b) : clients[b][id].closes = 1

(***************************************************************************)
(* Properties of the adapters                                              *)
(***************************************************************************)
NoRequestSent(a) ==
  /\ a.sent = [discover |-> 0, record |-> 0, verify |-> 0]
  /\ a.i = 0 /\ a.inflight = 0 /\ a.carried = 0

\* C12: an adapter operation invoked while the handle of its backend is not
\* cached returns a result whose error says that the client is not initialized
\* and whose dataIntegrity is false, has sent no request to the backend, and
\* leaves the registry, its clients and the connect calls as they were.
C12_NotInitialized ==
  [][(ad.pc = "idle" /\ ad'.pc # "idle" /\ getHandle(ad'.db) = Null) =>
       /\ ad'.pc = "returned"
       /\ ad'.result.error = dbLabels[ad'.db] \o " client not initialized"
       /\ ~ad'.result.dataIntegrity
       /\ NoRequestSent(ad')
       /\ registry' = registry /\ clients' = clients /\ conn' = conn
       /\ rows' = rows]_vars

C12_Witness ==
  /\ ad.pc = "returned" /\ ad.db = "mongo" /\ ad.op = "update"
  /\ getMongoDB = Null
  /\ ad.result.error = "MongoDB client not initialized"

IsSubsetOp(a) == a.op \in {"read", "update"}

\* C13: a read or update performed while the backend holds no row returns
\* recordCount 0, dataIntegrity false and the error "No records found in
\* database. Please run Write test first.", and at no time has a per-record
\* read or update request, or a read-back, been sent.
C13_NoRecords ==
  (IsSubsetOp(ad) /\ rows[ad.db] = 0) =>
    /\ ad.sent.record = 0 /\ ad.sent.verify = 0
    /\ ad.pc \in {"discover", "returned"}
    /\ (ad.pc = "returned" /\ ad.handle /\ ad.seen.rejected = "none") =>
         /\ ad.result.recordCount = 0
         /\ ~ad.result.dataIntegrity
         /\ ad.result.error = "No records found in database. Please run Write test first."

C13_Witness ==
  /\ ad.pc = "returned" /\ ad.op = "update" /\ ad.db = "cockroach" /\ ad.handle
  /\ rows["cockroach"] = 0 /\ ad.sent.discover = 1
  /\ ad.result.error = NoRecordsMessage

\* the adapter returned from its catch block
Caught(a) == a.pc = "returned" /\ a.result.error \notin {NoError, NoRecordsMessage}

\* C14: a read or update that fails before identifier discovery has completed
\* (no handle, or the discovery query fails) returns recordCount 0; one that
\* fails after discovery returns the number of identifiers discovery selected.
C14_RecordCountOnFailure ==
  (IsSubsetOp(ad) /\ Caught(ad)) =>
    ad.result.recordCount =
      IF ~ad.handle \/ ad.seen.rejected = "discover" THEN 0 ELSE ad.ids

(***************************************************************************)
(* Properties of runTest                                                   *)
(***************************************************************************)
\* a direct call of runTest has settled
Settled(r) == h[r].kind = "direct" /\ h[r].pc = "settled"
Supported(r) ==
  Last(h[r].invoked)[1] \in DatabaseType /\ Last(h[r].invoked)[2] \in OperationType

C17_ChunkedInserts ==
  [][/\ ad'.op = "write" => ad'.inflight <= batchSize
     /\ ad'.i > ad.i => ad.inflight = 0 /\ ad'.inflight <= batchSize]_vars

C17_Witness ==
  /\ ad.op = "write" /\ ad.db = "cockroach" /\ ad.pc = "insert"
  /\ ad.count = 2 * batchSize + 1 /\ ad.i = ad.count /\ ad.inflight = 1
  /\ rows["cockroach"] >= 2 * batchSize

\* C18: a write of n >= 1 records returns recordCount n, dataIntegrity true
\* and no error exactly when every insert succeeded and the read-back of the
\* first record returned a row with that record's name; the read-back is sent
\* once, after every insert has been dispatched and has completed; when nothing
\* failed but the row is missing or its name differs, the result has
\* recordCount n, dataIntegrity false and no error.
C18_WriteIntegrity ==
  ad.op = "write" =>
    /\ ad.sent.verify > 0 =>
         ad.sent.verify = 1 /\ ad.i = ad.count /\ ad.inflight = 0 /\ ad.carried = 0
    /\ ad.pc = "returned" =>
         /\ (ad.result.dataIntegrity /\ ad.result.error = NoError)
               <=> (ad.seen.rejected = "none" /\ ad.seen.verify = "match")
         /\ ad.result.dataIntegrity => ad.result.recordCount = ad.count
         /\ (ad.seen.rejected = "none" /\ ad.seen.verify \in {"missing", "mismatch"}) =>
              /\ ~ad.result.dataIntegrity /\ ad.result.error = NoError
              /\ ad.result.recordCount = ad.count

C18_Witness ==
  /\ ad.op = "write" /\ ad.db = "cassandra" /\ ad.pc = "returned"
  /\ ad.count = 2 * batchSize + 1 /\ ad.seen.verify = "missing"
  /\ ad.result = TestResult("Cassandra", "write", EnvNominal.elapsed, ad.count, FALSE, NoError)

C20_ReadIntegrity ==
  (ad.op = "read" /\ ad.pc = "returned") =>
    /\ ad.result.dataIntegrity =>
         /\ ad.seen.group \notin {"missing", "no_id", "no_name", "none"}
         /\ ad.seen.rejected = "none"
         /\ ad.sent.record = ad.ids /\ ad.ids > 0
    /\ ad.seen.group = "missing" => ~ad.result.dataIntegrity /\ ad.result.error = NoError

C20_Witness ==
  /\ ad.op = "read" /\ ad.db = "cassandra" /\ ad.pc = "returned"
  /\ ad.seen.group = "missing" /\ ad.ids = SubsetLimit
  /\ ~ad.result.dataIntegrity /\ ad.result.recordCount = SubsetLimit

\* C21: an update returns dataIntegrity true only if the re-read record has
\* an age that is 99 once coerced to a number and a name that contains
\* "Updated User".
C21_UpdateIntegrity ==
  (ad.op = "update" /\ ad.pc = "returned" /\ ad.result.dataIntegrity) =>
    ad.seen.verify \in {"match", "age_text"}

C23_SettlingDelay ==
  [][/\ (ad'.op = "update" /\ ad'.sent.verify > ad.sent.verify) =>
          /\ ad'.sent.verify = 1 /\ ad'.inflight = 0 /\ ad'.seen.group = "whole"
          /\ ad.pc = IF ad.db = "cockroach" THEN "settle" ELSE "group"
     /\ (ad'.pc = "settle" /\ ad.pc # "settle") =>
          /\ ad.pc = "group" /\ ad.db = "cockroach" /\ ad.op = "update"
          /\ ad'.inflight = 0 /\ ad'.sent.verify = 0]_vars

C23_Witness ==
  /\ ad.op = "update" /\ ad.db = "cockroach" /\ ad.pc = "verify"
  /\ ad.sent.verify = 1 /\ ad.sent.record = 1 /\ ad.applied = 1

(***************************************************************************)
(* Properties of the progress values and of the repeated run               *)
(***************************************************************************)
\* the cells whose terminal status is among the first j events of the stream
CompletedCells(r, j) == Len(SelectSeq(SubSeq(out[r].events, 1, j), IsTerminalStatus))

\* C24: every status event of the streamed full-matrix run carries progress
\* round(100 * c / 9), c being the number of cells that have completed when
\* the event is emitted (the cell of a completed event included).
C24_ProgressOfCompleted ==
  h[1].kind = "streamed" =>
    \A j \in 1..Len(out[1].events) :
      IsStatus(out[1].events[j]) =>
        out[1].events[j].progress = Round(100 * CompletedCells(1, j), totalCells)

NotFinal(e) == ~IsFinal(e)

\* C25: within one streamed run, full matrix or repeated, the progress of the
\* successive events before the final one, as the dashboard takes it from
\* them, is an integer in 0..100 and never decreases.
C25_ProgressMonotone ==
  IsStream(1) =>
    LET seen == SelectSeq(out[1].events, NotFinal)
    IN \A j \in 1..Len(seen) :
         /\ SeenProgress(seen[j]) \in 0..100
         /\ j > 1 => SeenProgress(seen[j - 1]) <= SeenProgress(seen[j])

\* C26: in a repeated run the times of every reported cell have 10 entries,
\* and the entry of an iteration whose TestResult carries an error is 0.
C26_FailedIterationIsZero ==
  h[1].kind = "repeat" =>
    /\ \A j \in 1..Len(h[1].allResults) : Len(h[1].allResults[j].times) = repeatCount
    /\ (h[1].pc = "iter_delay" /\ h[1].awaited.value.error # NoError) =>
         Last(h[1].times) = 0

NonZero(t) == t # 0
\* the per-cell completed events written so far
IsCellCompleted(e) == "type" \in DOMAIN e /\ e.type = "completed"

\* C27: average, min and max of a cell's RepeatTestResult are the mean, the
\* minimum and the maximum of the non-zero entries of times, all three are 0
\* when times has no non-zero entry, and times is reported as measured.
C27_Statistics ==
  \A e \in Range(SelectSeq(out[1].events, IsCellCompleted)) :
    LET nz == SelectSeq(e.result.times, NonZero)
    IN /\ e.result.times = h[1].times
       /\ e.result = Last(h[1].allResults)
       /\ IF nz = <<>>
          THEN /\ e.result.average.num = 0
               /\ e.result.min = 0 /\ e.result.max = 0
          ELSE /\ e.result.average.num * Len(nz) = Sum(nz) * e.result.average.den
               /\ e.result.average.den > 0
               /\ e.result.min \in Range(nz) /\ e.result.max \in Range(nz)
               /\ \A t \in Range(nz) : e.result.min <= t /\ t <= e.result.max

C27_Witness ==
  /\ h[1].pc = "cell_delay" /\ Len(out[1].events) = repeatCount + 2
  /\ h[1].times[1] = 0 /\ h[1].times[2] = 3 /\ h[1].times[3] = 1
  /\ Last(out[1].events).result.min = 1 /\ Last(out[1].events).result.max = 3

\* C28: every RepeatTestResult has min <= average <= max when times has a
\* non-zero entry, and min = average = max = 0 when every entry is 0.
C28_MinAverageMax ==
  \A j \in 1..Len(h[1].allResults) :
    LET res == h[1].allResults[j]
    IN /\ res.average.den > 0
       /\ res.min * res.average.den <= res.average.num
       /\ res.average.num <= res.max * res.average.den
       /\ (\A t \in Range(res.times) : t = 0) =>
            res.min = 0 /\ res.average.num = 0 /\ res.max = 0

C28_Witness ==
  /\ h[1].kind = "repeat" /\ Len(h[1].allResults) = 1
  /\ LET res == h[1].allResults[1]
     IN /\ res.min * res.average.den < res.average.num
        /\ res.average.num < res.max * res.average.den
        /\ 0 \in Range(res.times)

\* C29: a repeated run that has ended with its complete event has invoked
\* runTest 90 times, 10 consecutive times for each cell in matrix order, has
\* emitted one completed event per cell carrying the RepeatTestResult of that
\* cell, and its complete event carries these 9 results in matrix order.
C29_RepeatedRun ==
  (h[1].kind = "repeat" /\ h[1].method = "POST" /\ out[1].ended) =>
    LET completed == SelectSeq(out[1].events, IsCellCompleted)
        final == Last(out[1].events)
    IN /\ Len(h[1].invoked) = totalCells * repeatCount
       /\ \A k \in 1..Len(h[1].invoked) :
            h[1].invoked[k] = MatrixOrder[((k - 1) \div repeatCount) + 1]
       /\ final.type = "complete"
       /\ Len(final.results) = Len(MatrixOrder)
       /\ Len(completed) = Len(MatrixOrder)
       /\ \A n \in 1..Len(MatrixOrder) :
            /\ final.results[n].database = dbLabels[MatrixOrder[n][1]]
            /\ final.results[n].operation = MatrixOrder[n][2]
            /\ Len(final.results[n].times) = repeatCount
            /\ completed[n].result = final.results[n]

C29_Witness ==
  /\ h[1].kind = "repeat" /\ out[1].ended /\ Len(h[1].invoked) = totalCells * repeatCount
  /\ Last(out[1].events).results[4].times[1] = 0
  /\ Last(out[1].events).results[1].min = 1

(***************************************************************************)
(* Properties of the buffered response                                     *)
(***************************************************************************)
\* the timeTaken of the first n results, added up
RECURSIVE TimeOfFirst(_, _)
TimeOfFirst(results, n) ==
  IF n = 0 THEN 0 ELSE TimeOfFirst(results, n - 1) + results[n].timeTaken

\* C30: in the buffered full-matrix response, totalTests is the number of
\* results (9), successfulTests counts the results with no error and
\* dataIntegrity true, failedTests counts all others, so that the two add up
\* to totalTests, and totalTime is the sum of the results' timeTaken.
C30_Summary ==
  (h[1].kind = "buffered" /\ out[1].status = 200) =>
    LET results == out[1].json.results
        summary == out[1].json.summary
        good == {j \in 1..Len(results) :
                   results[j].error = NoError /\ results[j].dataIntegrity}
    IN /\ summary.totalTests = Len(results) /\ summary.totalTests = totalCells
       /\ summary.successfulTests = Cardinality(good)
       /\ summary.failedTests = Cardinality((1..Len(results)) \ good)
       /\ summary.successfulTests + summary.failedTests = summary.totalTests
       /\ summary.totalTime = TimeOfFirst(results, Len(results))

\* a response in which a result without error has failed verification
C30_Witness ==
  /\ h[1].kind = "buffered" /\ out[1].status = 200
  /\ out[1].json.summary.failedTests = 1
  /\ out[1].json.summary.totalTime = totalCells
  /\ \E j \in 1..totalCells :
       out[1].json.results[j].error = NoError /\ ~out[1].json.results[j].dataIntegrity


C32_StatusField ==
  \A r \in Slots :
    h[r].kind \in {"streamed", "repeat"} =>
      \A j \in 1..Len(out[r].events) :
        LET e == out[r].events[j]
        IN IF IsFinal(e) THEN "type" \in DOMAIN e
           ELSE /\ "status" \in DOMAIN e
                /\ e.status \in {"starting", "running", "verifying", "completed", "error"}
                /\ "type" \notin DOMAIN e

\* C33: generate(n) returns exactly n records whose identifiers are pairwise
\* distinct, whose user_id values are 1..n in order, and whose age is
\* 20 + ((user_id - 1) mod 50), hence within 20..69.
C33_Generate ==
  (ad.op = "write" /\ ad.pc # "idle") =>
    LET records == ad.records
        n == ad.count
    IN /\ Len(records) = n
       /\ Cardinality({records[j].id : j \in 1..n}) = n
       /\ \A j \in 1..n :
            /\ records[j].user_id = j
            /\ records[j].age = 20 + ((records[j].user_id - 1) % 50)
            /\ records[j].age \in 20..69

\* records generated for a write of more than a hundred records: the ages have
\* reached 69 and started again at 20
C33_Witness ==
  /\ ad.op = "write" /\ ad.pc # "idle" /\ ad.count = 2 * batchSize + 1
  /\ ad.records[50].age = 69 /\ ad.records[51].age = 20
  /\ ad.records[ad.count].user_id = ad.count

\* C34: when an adapter returns its TestResult, on success and also when one
\* of its requests failed, none of the requests it dispatched (inserts of the
\* current chunk, per-identifier reads or updates) is still in flight.
C34_NothingInFlight ==
  ad.pc = "returned" => ad.inflight = 0

\* C35: recordCount is the number of records the operation actually
\* processed: a write that fails before its inserts were all performed (no
\* client, or a rejected insert) does not report the full requested count.
C35_RecordCountProcessed ==
  (/\ ad.pc = "returned" /\ ad.op = "write"
   /\ ~ad.handle \/ ad.seen.rejected = "insert")
    => ad.result.recordCount < ad.count

\* C36: when two connect calls for the same backend overlap in time, at most
\* one connection to that backend is created and both calls return the same
\* handle.
C36_OverlappingConnects ==
  \A b \in DatabaseType :
    (/\ ghost.calls = 2 /\ ghost.concurrent /\ closer.pc = "idle"
     /\ \A c \in Slots : conn[c].pc = "returned" /\ conn[c].db = b)
      => /\ Cardinality({i \in 1..Len(clients[b]) : clients[b][i].role = "main"}) <= 1
         /\ conn[1].ret = conn[2].ret

\* C37: a connect call that fails leaves the registry as it was before the
\* call: afterwards getHandle for that backend still returns null, and the
\* next connect call performs the full initialization again (it constructs a
\* client and connects it) instead of returning a handle whose connection or
\* schema bootstrap never succeeded.  Stated for calls that overlap no other.
C37_FailedConnectLeavesRegistry ==
  [][\A c \in Slots :
       /\ (conn[c].pc # "threw" /\ conn'[c].pc = "threw" /\ ~ghost'.concurrent)
            => getHandle(conn[c].db)' = Null
       /\ (/\ conn[c].pc = "begin" /\ conn'[c].pc \notin {"begin", "returned"}
           /\ ~ghost.concurrent)
            => clients'[conn[c].db][Len(clients'[conn[c].db])].role # "db"]_vars

\* C38: all TestResults for one backend carry the same database label on
\* every path that produces them (adapter success, adapter-caught failure,
\* orchestrator-caught failure, runner-caught failure): the label under which
\* the progress events and the charts look the backend up.
C38_OneLabel ==
  \A r \in Slots :
    h[r].kind \in {"buffered", "streamed"} =>
      \A j \in 1..Len(h[r].allResults) :
        h[r].allResults[j].database = dbLabels[CellDb(j)]

\* C39: after the dashboard has started a full-matrix or repeated run, once
\* the response stream has ended (with a complete event, an error event, or
\* neither, and under any chunking of the bytes) the running flag becomes
\* false, so that the test controls are enabled again.  The function returns
\* when the reader reports the end of the stream; nothing resets the flag after
\* that, so the flag must be false by then.
C39_ControlsEnabledAgain ==
  cons.pc = "done" => ~cons.running

\* C40: a request whose method is not POST to any test endpoint (single,
\* buffered, streamed, repeated), and a single-test request whose operation is
\* not one of read, write, update, is answered with an error response (405 or
\* 400) and never invokes runTest nor writes any stream event.
C40_RejectedRequests ==
  \A r \in Slots :
    (/\ h[r].kind \in {"single", "buffered", "streamed", "repeat"}
     /\ h[r].method # "POST"
        \/ (h[r].kind = "single" /\ h[r].operation \notin validOperations))
      => /\ h[r].pc = "done"
         /\ out[r].status = IF h[r].method # "POST" THEN 405 ELSE 400
         /\ out[r].json.kind = "error"
         /\ h[r].invoked = <<>> /\ conn[r].pc = "idle"
         /\ out[r].events = <<>> /\ ~out[r].ended

\* a single-test request with an operation outside the three has been answered
C40_Witness ==
  /\ h[1].kind = "single" /\ h[1].method = "POST" /\ h[1].operation = "drop"
  /\ out[1].status = 400 /\ h[1].pc = "done"

=============================================================================
